---- MODULE Spec2Model ----
(***************************************************************************)
(* Model of the resource correlation engine of the diagram generator       *)
(* (diagram_generator/correlation.py), of the helpers it calls             *)
(* (diagram_generator/utils.py, diagram_generator/models.py) and of the    *)
(* three collectors that feed it (terraform_collector.py,                  *)
(* azure_collector.py, f5xc_collector.py).                                 *)
(*                                                                         *)
(* Python strings are modelled as sequences of one-character strings, so   *)
(* that str.lower(), str.replace(), the `in` substring test and the IPv4   *)
(* regular expression are computed character by character.  Python dicts   *)
(* with string values (tags, labels) are functions; open dicts whose       *)
(* fields are read with .get() are records whose DOMAIN is the set of keys *)
(* present; JSON trees (properties) are tagged records.                    *)
(***************************************************************************)
EXTENDS Integers, Sequences, FiniteSets, TLC

(***************************************************************************)
(* Bounds of the model: the longest input lists of a correlate() call and  *)
(* the number of correlate() calls made on one ResourceCorrelator.         *)
(***************************************************************************)
MaxTf == 2
MaxAz == 2
MaxF5 == 1
MaxCalls == 2
MaxAttempts == 3
RecursionLimit == 3

(***************************************************************************)
(* Strings                                                                 *)
(***************************************************************************)
UpperChars == <<"A","B","C","D","E","F","G","H","I","J","K","L","M",
                "N","O","P","Q","R","S","T","U","V","W","X","Y","Z">>
LowerChars == <<"a","b","c","d","e","f","g","h","i","j","k","l","m",
                "n","o","p","q","r","s","t","u","v","w","x","y","z">>
Digits == {"0","1","2","3","4","5","6","7","8","9"}

\* str.lower() on one character
LowerChar(c) ==
  IF \E i \in 1..Len(UpperChars) : UpperChars[i] = c
  THEN LowerChars[CHOOSE i \in 1..Len(UpperChars) : UpperChars[i] = c]
  ELSE c

\* str.lower()
Lower(s) == [i \in 1..Len(s) |-> LowerChar(s[i])]

\* a in b, for two Python strings
IsSubstring(a, b) ==
  \E i \in 0..(Len(b) - Len(a)) :
    \A j \in 1..Len(a) : b[i + j] = a[j]

\* resource_id.replace(".", "_").replace("[", "_").replace("]", "_").replace("/", "_")
sanitize_resource_id(resource_id) ==
  [i \in 1..Len(resource_id) |->
     IF resource_id[i] \in {".", "[", "]", "/"} THEN "_" ELSE resource_id[i]]

\* f"{namespace}/{type}/{name}"
F5Key(r) == r.namespace \o <<"/">> \o r.type \o <<"/">> \o r.name

(***************************************************************************)
(* JSON values                                                             *)
(***************************************************************************)
JNull == [t |-> "null"]
JStr(s) == [t |-> "str", s |-> s]
JNum(n) == [t |-> "num", n |-> n]
\* a dict of string values (tags, labels): d is a function from keys to values
JTags(d) == [t |-> "tags", d |-> d]
\* a nested dict: items is the sequence of its (key, value) entries
JDict(items) == [t |-> "dict", items |-> items]
JList(elems) == [t |-> "list", elems |-> elems]
KV(k, v) == [k |-> k, v |-> v]

\* the empty Python dict {} with string values
EmptyTags == [k \in {} |-> <<>>]

\* d.get(key, default) on a record whose DOMAIN is the set of keys present
Get(d, key, default) == IF key \in DOMAIN d THEN d[key] ELSE default

(***************************************************************************)
(* extract_ip_addresses: the regular expression                            *)
(*     \b(?:\d{1,3}\.){3}\d{1,3}\b                                         *)
(* matched as re.findall does, and the recursive search of a dict.         *)
(***************************************************************************)
\* \w of the regular expression (ASCII)
IsWordChar(c) ==
  \/ c \in Digits
  \/ c = "_"
  \/ \E i \in 1..Len(UpperChars) : UpperChars[i] = c \/ LowerChars[i] = c

\* the number of digits that follow one another in s from position i on
RECURSIVE DigitRun(_, _)
DigitRun(s, i) ==
  IF i <= Len(s) /\ s[i] \in Digits THEN 1 + DigitRun(s, i + 1) ELSE 0

\* (?:\d{1,3}\.) at position i: the position after the dot, or 0.  The dot
\* must follow the digits taken, so the whole run of digits is taken.
GroupEnd(s, i) ==
  LET r == DigitRun(s, i) IN
  IF r >= 1 /\ r <= 3 /\ i + r <= Len(s) /\ s[i + r] = "." THEN i + r + 1 ELSE 0

\* \d{1,3}\b at position i: the position after the digits, or 0.  A word
\* boundary follows a digit only at the end or before a non-word character.
LastEnd(s, i) ==
  LET r == DigitRun(s, i) IN
  IF r >= 1 /\ r <= 3 /\ (i + r > Len(s) \/ ~IsWordChar(s[i + r])) THEN i + r ELSE 0

\* the pattern at position i: the position after the match, or 0
MatchEnd(s, i) ==
  IF i > 1 /\ IsWordChar(s[i - 1]) THEN 0
  ELSE LET g1 == GroupEnd(s, i) IN
       IF g1 = 0 THEN 0
       ELSE LET g2 == GroupEnd(s, g1) IN
            IF g2 = 0 THEN 0
            ELSE LET g3 == GroupEnd(s, g2) IN
                 IF g3 = 0 THEN 0 ELSE LastEnd(s, g3)

\* ip_pattern.findall(value), scanning from position i: the matches in order
RECURSIVE FindAllFrom(_, _)
FindAllFrom(s, i) ==
  IF i > Len(s) THEN <<>>
  ELSE LET e == MatchEnd(s, i) IN
       IF e = 0 THEN FindAllFrom(s, i + 1)
       ELSE <<SubSeq(s, i, e - 1)>> \o FindAllFrom(s, e)

ip_pattern_findall(s) == FindAllFrom(s, 1)

\* search_dict(d), the nested function of extract_ip_addresses: the list ips
\* after the search, in the order of the traversal
RECURSIVE search_dict(_)
RECURSIVE search_items(_, _)
RECURSIVE search_list(_, _)
search_dict(d) == search_items(d.items, 1)

search_list(elems, i) ==
  IF i > Len(elems) THEN <<>>
  ELSE LET item == elems[i] IN
       (IF item.t = "dict" THEN search_dict(item)
        ELSE IF item.t = "str" THEN ip_pattern_findall(item.s)
        ELSE <<>>) \o search_list(elems, i + 1)

search_items(items, i) ==
  IF i > Len(items) THEN <<>>
  ELSE LET value == items[i].v IN
       (IF value.t = "str" THEN ip_pattern_findall(value.s)
        ELSE IF value.t = "dict" THEN search_dict(value)
        ELSE IF value.t = "list" THEN search_list(value.elems, 1)
        ELSE <<>>) \o search_items(items, i + 1)

Range(seq) == {seq[i] : i \in 1..Len(seq)}

\* list(set(ips)): the addresses found, without duplicates.  The order of the
\* returned list is the iteration order of a Python set; its callers only
\* build a set from it again.
extract_ip_addresses(resource_dict) == Range(search_dict(resource_dict))

(***************************************************************************)
(* models.py: the program constants the correlator compares with           *)
(***************************************************************************)
VM_TYPE == <<"M","i","c","r","o","s","o","f","t",".","C","o","m","p","u","t","e",
             "/","v","i","r","t","u","a","l","M","a","c","h","i","n","e","s">>
VNET_TYPE == <<"M","i","c","r","o","s","o","f","t",".","N","e","t","w","o","r","k",
               "/","v","i","r","t","u","a","l","N","e","t","w","o","r","k","s">>
ORIGIN_POOL == <<"o","r","i","g","i","n","_","p","o","o","l">>
SITE == <<"s","i","t","e">>

\* RelationshipType
TERRAFORM_DEPENDENCY == "terraform_dependency"
TERRAFORM_AZURE == "terraform_azure"
F5XC_ORIGIN_TO_AZURE_VM == "f5xc_origin_to_azure_vm"
F5XC_SITE_TO_AZURE_VNET == "f5xc_site_to_azure_vnet"
GENERIC_DEPENDENCY == "generic_dependency"

\* ResourceRelationship(source_id, target_id, relationship_type, metadata)
ResourceRelationship(source_id, target_id, relationship_type, metadata) ==
  [source_id |-> source_id, target_id |-> target_id,
   relationship_type |-> relationship_type, metadata |-> metadata]

\* ConfigurationDrift(resource_address, drift_type, terraform_value, azure_value, details)
ConfigurationDrift(resource_address, drift_type, terraform_value, azure_value, details) ==
  [resource_address |-> resource_address, drift_type |-> drift_type,
   terraform_value |-> terraform_value, azure_value |-> azure_value,
   details |-> details]

(***************************************************************************)
(* networkx.DiGraph: nodes maps a node id to its attributes, edges maps a  *)
(* (source, target) pair to its attributes.                                *)
(***************************************************************************)
EmptyGraph == [nodes |-> <<>>, edges |-> <<>>]

\* G.add_node(n, **attrs): creates the node or overwrites the attributes given
add_node(g, n, attrs) ==
  [g EXCEPT !.nodes = [k \in DOMAIN g.nodes \cup {n} |->
                         IF k = n THEN attrs ELSE g.nodes[k]]]

\* G.add_edge(u, v, **attrs): creates u and v when they are not nodes yet
add_edge(g, u, v, attrs) ==
  [nodes |-> [k \in DOMAIN g.nodes \cup {u, v} |->
                IF k \in DOMAIN g.nodes THEN g.nodes[k] ELSE <<>>],
   edges |-> [e \in DOMAIN g.edges \cup {<<u, v>>} |->
                IF e = <<u, v>> THEN attrs ELSE g.edges[e]]]

\* the edges added whether the target is a node or not
RECURSIVE add_edges_always(_, _, _)
add_edges_always(g, rels, i) ==
  IF i > Len(rels) THEN g
  ELSE add_edges_always(
         add_edge(g, rels[i].source_id, rels[i].target_id, [relationship |-> rels[i]]),
         rels, i + 1)

\* for each relationship in the order it was built:
\*     if target_id in self.graph: self.graph.add_edge(source_id, target_id, ...)
RECURSIVE add_edges_if_target(_, _, _)
add_edges_if_target(g, rels, i) ==
  IF i > Len(rels) THEN g
  ELSE add_edges_if_target(
         IF rels[i].target_id \in DOMAIN g.nodes
         THEN add_edge(g, rels[i].source_id, rels[i].target_id,
                       [relationship |-> rels[i]])
         ELSE g,
         rels, i + 1)

\* the concatenation of the sequences f[1], ..., f[n]
RECURSIVE Flatten(_, _)
Flatten(f, n) == IF n = 0 THEN <<>> ELSE Flatten(f, n - 1) \o f[n]

(***************************************************************************)
(* ResourceCorrelator._add_resources_to_graph                              *)
(***************************************************************************)
RECURSIVE add_nodes(_, _, _)
add_nodes(g, entries, i) ==
  IF i > Len(entries) THEN g
  ELSE add_nodes(add_node(g, entries[i].node_id, entries[i].attrs), entries, i + 1)

_add_resources_to_graph(g, terraform_resources, azure_resources, f5xc_resources) ==
  LET tf == [i \in 1..Len(terraform_resources) |->
               [node_id |-> sanitize_resource_id(terraform_resources[i].address),
                attrs |-> [resource |-> terraform_resources[i], source |-> "terraform"]]]
      az == [i \in 1..Len(azure_resources) |->
               [node_id |-> sanitize_resource_id(azure_resources[i].id),
                attrs |-> [resource |-> azure_resources[i], source |-> "azure"]]]
      f5 == [i \in 1..Len(f5xc_resources) |->
               [node_id |-> sanitize_resource_id(F5Key(f5xc_resources[i])),
                attrs |-> [resource |-> f5xc_resources[i], source |-> "f5xc"]]]
  IN add_nodes(add_nodes(add_nodes(g, tf, 1), az, 1), f5, 1)

(***************************************************************************)
(* ResourceCorrelator._correlate_terraform_dependencies                    *)
(***************************************************************************)
\* the relationships of one resource with source_id and target_id exchanged
dependency_relationships_reversed(resource) ==
  [j \in 1..Len(resource.depends_on) |->
     ResourceRelationship(sanitize_resource_id(resource.depends_on[j]),
                          sanitize_resource_id(resource.address),
                          TERRAFORM_DEPENDENCY,
                          [depends_on |-> resource.depends_on[j]])]

\* the relationships of one resource, one per entry of depends_on
dependency_relationships(resource) ==
  [j \in 1..Len(resource.depends_on) |->
     ResourceRelationship(sanitize_resource_id(resource.address),
                          sanitize_resource_id(resource.depends_on[j]),
                          TERRAFORM_DEPENDENCY,
                          [depends_on |-> resource.depends_on[j]])]

\* the method with a relationship appended only when the graph has no edge
\* for it yet
_correlate_terraform_dependencies_new_edges_only(g, terraform_resources) ==
  LET every == Flatten([i \in 1..Len(terraform_resources) |->
                          [j \in 1..Len(terraform_resources[i].depends_on) |->
                             ResourceRelationship(
                               sanitize_resource_id(terraform_resources[i].address),
                               sanitize_resource_id(terraform_resources[i].depends_on[j]),
                               TERRAFORM_DEPENDENCY,
                               [depends_on |-> terraform_resources[i].depends_on[j]])]],
                       Len(terraform_resources))
      relationships ==
        SelectSeq(every, LAMBDA r : <<r.source_id, r.target_id>> \notin DOMAIN g.edges)
  IN [relationships |-> relationships,
      graph |-> add_edges_if_target(g, relationships, 1)]

\* relationships is the list returned, graph the graph the method leaves
_correlate_terraform_dependencies(g, terraform_resources) ==
  LET relationships ==
        Flatten([i \in 1..Len(terraform_resources) |->
                   dependency_relationships(terraform_resources[i])],
                Len(terraform_resources))
  IN [relationships |-> relationships,
      graph |-> add_edges_if_target(g, relationships, 1)]

(***************************************************************************)
(* ResourceCorrelator._correlate_terraform_to_azure                        *)
(***************************************************************************)
\* {resource.id.lower(): resource for resource in azure_resources}: the keys
AzureLookupKeys(azure_resources) ==
  {Lower(azure_resources[i].id) : i \in 1..Len(azure_resources)}

\* azure_lookup[key]: the last resource of the list with that key
AzureLookup(azure_resources, key) ==
  LET last == CHOOSE i \in 1..Len(azure_resources) :
                /\ Lower(azure_resources[i].id) = key
                /\ \A j \in (i + 1)..Len(azure_resources) :
                     Lower(azure_resources[j].id) # key
  IN azure_resources[last]

\* tf_resource.values.get("id", ""), on which .lower() is called
ValuesId(tf_resource) == Get(tf_resource.values, "id", JStr(<<>>))

\* .lower() raises AttributeError on a value that is not a string
LowerRaises(value) == value.t # "str"

\* the test with the ids compared as they are written
Matched_case_sensitive(tf_resource, azure_resources) ==
  LET azure_id == ValuesId(tf_resource).s
  IN azure_id # <<>>
       /\ azure_id \in {azure_resources[i].id : i \in 1..Len(azure_resources)}

\* azure_id and azure_id in azure_lookup
Matched(tf_resource, azure_resources) ==
  LET azure_id == Lower(ValuesId(tf_resource).s)
  IN azure_id # <<>> /\ azure_id \in AzureLookupKeys(azure_resources)

\* the index of the first element whose processing raises, Len + 1 if none
FirstRaising(raises) ==
  IF \E i \in DOMAIN raises : raises[i]
  THEN CHOOSE i \in DOMAIN raises : raises[i] /\ \A j \in 1..(i - 1) : ~raises[j]
  ELSE Len(raises) + 1

\* the relationship with the id as the Terraform record writes it, lowered,
\* for target
terraform_azure_relationship_target_as_written(tf_resource, azure_resources) ==
  IF Matched(tf_resource, azure_resources)
  THEN LET azure_id == Lower(ValuesId(tf_resource).s)
           azure_resource == AzureLookup(azure_resources, azure_id)
       IN <<ResourceRelationship(
              sanitize_resource_id(tf_resource.address),
              sanitize_resource_id(azure_id),
              TERRAFORM_AZURE,
              [azure_id |-> azure_id,
               terraform_type |-> tf_resource.type,
               azure_type |-> azure_resource.type])>>
  ELSE <<>>

\* the body of the loop of _correlate_terraform_to_azure: the relationship of
\* a Terraform record whose id is the id of an Azure record
terraform_azure_relationship(tf_resource, azure_resources) ==
  IF Matched(tf_resource, azure_resources)
  THEN LET azure_id == Lower(ValuesId(tf_resource).s)
           azure_resource == AzureLookup(azure_resources, azure_id)
       IN <<ResourceRelationship(
              sanitize_resource_id(tf_resource.address),
              sanitize_resource_id(azure_resource.id),
              TERRAFORM_AZURE,
              [azure_id |-> azure_id,
               terraform_type |-> tf_resource.type,
               azure_type |-> azure_resource.type])>>
  ELSE <<>>

\* raised is TRUE when the loop raised; the relationships of the resources
\* before the raising one were built and their edges added by then
_correlate_terraform_to_azure(g, terraform_resources, azure_resources) ==
  LET raises == [i \in 1..Len(terraform_resources) |->
                   LowerRaises(ValuesId(terraform_resources[i]))]
      stop == FirstRaising(raises)
      relationships ==
        Flatten([i \in 1..(stop - 1) |->
                   terraform_azure_relationship(terraform_resources[i], azure_resources)],
                stop - 1)
  IN [relationships |-> relationships,
      graph |-> add_edges_if_target(g, relationships, 1),
      raised |-> stop <= Len(terraform_resources)]

(***************************************************************************)
(* ResourceCorrelator._match_origin_pool_to_vms                            *)
(***************************************************************************)
\* origin_pool.spec.get("origin_servers", [])
Origins(origin_pool) == Get(origin_pool.spec, "origin_servers", <<>>)

\* origin["public_ip"].get("ip", "") raises AttributeError on null
OriginRaises(origin) ==
  IF "public_ip" \in DOMAIN origin THEN origin["public_ip"] = JNull
  ELSE IF "private_ip" \in DOMAIN origin THEN origin["private_ip"] = JNull
  ELSE FALSE

\* what one entry of origin_servers adds to origin_ips
OriginIp(origin) ==
  IF "public_ip" \in DOMAIN origin THEN {Get(origin["public_ip"], "ip", <<>>)}
  ELSE IF "private_ip" \in DOMAIN origin THEN {Get(origin["private_ip"], "ip", <<>>)}
  ELSE {}

OriginIps(origin_pool) ==
  UNION {OriginIp(Origins(origin_pool)[i]) : i \in 1..Len(Origins(origin_pool))}

MatchOriginPoolRaises(origin_pool) ==
  \E i \in 1..Len(Origins(origin_pool)) : OriginRaises(Origins(origin_pool)[i])

\* the relationship listing every address of the pool once one is shared
origin_vm_relationship_lists_origin_ips(origin_pool, vm) ==
  LET origin_ips == OriginIps(origin_pool)
      vm_ips == extract_ip_addresses(vm.properties)
  IN IF origin_ips \cap vm_ips # {}
     THEN <<ResourceRelationship(
              sanitize_resource_id(F5Key(origin_pool)),
              sanitize_resource_id(vm.id),
              F5XC_ORIGIN_TO_AZURE_VM,
              [matched_ips |-> origin_ips,
               origin_pool |-> origin_pool.name,
               vm_name |-> vm.name])>>
     ELSE <<>>

\* the body of the loop over the virtual machines: the relationship of a
\* pool and a machine that share an address
origin_vm_relationship(origin_pool, vm) ==
  LET origin_ips == OriginIps(origin_pool)
      vm_ips == extract_ip_addresses(vm.properties)
  IN IF origin_ips \cap vm_ips # {}
     THEN <<ResourceRelationship(
              sanitize_resource_id(F5Key(origin_pool)),
              sanitize_resource_id(vm.id),
              F5XC_ORIGIN_TO_AZURE_VM,
              [matched_ips |-> origin_ips \cap vm_ips,
               origin_pool |-> origin_pool.name,
               vm_name |-> vm.name])>>
     ELSE <<>>

\* the relationships of one origin pool (its edges are added by the caller's
\* fold, in the same order); called only when MatchOriginPoolRaises is FALSE
_match_origin_pool_to_vms(origin_pool, azure_vms) ==
  Flatten([i \in 1..Len(azure_vms) |-> origin_vm_relationship(origin_pool, azure_vms[i])],
          Len(azure_vms))

(***************************************************************************)
(* ResourceCorrelator._match_site_to_vnets                                 *)
(***************************************************************************)
\* the match with only `vnet_name in site_name` tested
site_vnet_relationship_one_way(site, vnet) ==
  LET vnet_name == Lower(vnet.name)
      site_name == Lower(site.name)
  IN IF IsSubstring(vnet_name, site_name)
     THEN <<ResourceRelationship(
              sanitize_resource_id(F5Key(site)),
              sanitize_resource_id(vnet.id),
              F5XC_SITE_TO_AZURE_VNET,
              [site_name |-> site.name,
               vnet_name |-> vnet.name,
               match_method |-> "name_similarity"])>>
     ELSE <<>>

site_vnet_relationship(site, vnet) ==
  LET vnet_name == Lower(vnet.name)
      site_name == Lower(site.name)
  IN IF IsSubstring(vnet_name, site_name) \/ IsSubstring(site_name, vnet_name)
     THEN <<ResourceRelationship(
              sanitize_resource_id(F5Key(site)),
              sanitize_resource_id(vnet.id),
              F5XC_SITE_TO_AZURE_VNET,
              [site_name |-> site.name,
               vnet_name |-> vnet.name,
               match_method |-> "name_similarity"])>>
     ELSE <<>>

_match_site_to_vnets(site, azure_vnets) ==
  Flatten([i \in 1..Len(azure_vnets) |-> site_vnet_relationship(site, azure_vnets[i])],
          Len(azure_vnets))

(***************************************************************************)
(* ResourceCorrelator._correlate_f5xc_to_azure                             *)
(***************************************************************************)
\* [r for r in azure_resources if r.type == wanted]
RECURSIVE FilterType(_, _, _)
FilterType(azure_resources, wanted, i) ==
  IF i > Len(azure_resources) THEN <<>>
  ELSE (IF azure_resources[i].type = wanted THEN <<azure_resources[i]>> ELSE <<>>)
       \o FilterType(azure_resources, wanted, i + 1)

f5xc_azure_relationships(f5xc_resource, azure_vms, azure_vnets) ==
  IF f5xc_resource.type = ORIGIN_POOL
  THEN _match_origin_pool_to_vms(f5xc_resource, azure_vms)
  ELSE IF f5xc_resource.type = SITE
  THEN _match_site_to_vnets(f5xc_resource, azure_vnets)
  ELSE <<>>

_correlate_f5xc_to_azure(g, f5xc_resources, azure_resources) ==
  LET azure_vms == FilterType(azure_resources, VM_TYPE, 1)
      azure_vnets == FilterType(azure_resources, VNET_TYPE, 1)
      raises == [i \in 1..Len(f5xc_resources) |->
                   /\ f5xc_resources[i].type = ORIGIN_POOL
                   /\ MatchOriginPoolRaises(f5xc_resources[i])]
      stop == FirstRaising(raises)
      relationships ==
        Flatten([i \in 1..(stop - 1) |->
                   f5xc_azure_relationships(f5xc_resources[i], azure_vms, azure_vnets)],
                stop - 1)
  IN [relationships |-> relationships,
      graph |-> add_edges_if_target(g, relationships, 1),
      raised |-> stop <= Len(f5xc_resources)]

(***************************************************************************)
(* ResourceCorrelator._index_resources_by_tags and _correlate_by_tags      *)
(***************************************************************************)
\* the tags the index reads of one resource: resource.values.get("tags", {}),
\* resource.tags, resource.metadata.get("labels", {})
TagsOf(resource, source) ==
  IF source = "terraform" THEN Get(resource.values, "tags", JTags(EmptyTags))
  ELSE IF source = "azure" THEN JTags(resource.tags)
  ELSE Get(resource.metadata, "labels", JTags(EmptyTags))

\* the resource id the index stores
IndexId(resource, source) ==
  IF source = "terraform" THEN sanitize_resource_id(resource.address)
  ELSE IF source = "azure" THEN sanitize_resource_id(resource.id)
  ELSE sanitize_resource_id(F5Key(resource))

\* tags.items() raises AttributeError on a value that is not a dict
ItemsRaises(tags) == tags.t # "tags"

IndexRaises(resources, source) ==
  \E i \in 1..Len(resources) : ItemsRaises(TagsOf(resources[i], source))

\* set(tag_index.keys()): the (key, value) pairs of the resources
IndexKeys(resources, source) ==
  UNION {LET d == TagsOf(resources[i], source).d
         IN {<<k, d[k]>> : k \in DOMAIN d} : i \in 1..Len(resources)}

\* tag_index.get(tag, []): the ids of the resources with the pair, in list order
RECURSIVE IndexGet(_, _, _, _)
IndexGet(resources, source, tag, i) ==
  IF i > Len(resources) THEN <<>>
  ELSE LET d == TagsOf(resources[i], source).d
       IN (IF tag[1] \in DOMAIN d /\ d[tag[1]] = tag[2]
           THEN <<IndexId(resources[i], source)>> ELSE <<>>)
          \o IndexGet(resources, source, tag, i + 1)

\* all_tags, a Python set of tuples
AllTags(terraform_resources, azure_resources, f5xc_resources) ==
  IndexKeys(terraform_resources, "terraform") \cup IndexKeys(azure_resources, "azure")
    \cup IndexKeys(f5xc_resources, "f5xc")

\* the orders in which `for tag_key, tag_value in all_tags` may visit the set
Orders(S) ==
  {o \in [1..Cardinality(S) -> S] : \A i, j \in DOMAIN o : i # j => o[i] # o[j]}

\* the relationships of one pair with the two lists walked side by side
tag_relationships_side_by_side(tf_matches, azure_matches, tag) ==
  [i \in 1..(IF Len(tf_matches) < Len(azure_matches)
             THEN Len(tf_matches) ELSE Len(azure_matches)) |->
     ResourceRelationship(tf_matches[i], azure_matches[i], GENERIC_DEPENDENCY,
                          [tag_key |-> tag[1], tag_value |-> tag[2]])]

\* the relationships of one (tag_key, tag_value) pair
tag_relationships(tf_matches, azure_matches, tag) ==
  Flatten([i \in 1..Len(tf_matches) |->
             [j \in 1..Len(azure_matches) |->
                ResourceRelationship(tf_matches[i], azure_matches[j],
                                     GENERIC_DEPENDENCY,
                                     [tag_key |-> tag[1], tag_value |-> tag[2]])]],
          Len(tf_matches))

\* order is the order in which the loop visits all_tags
_correlate_by_tags(enabled, terraform_resources, azure_resources, f5xc_resources, order) ==
  IF ~enabled THEN [relationships |-> <<>>, raised |-> FALSE]
  ELSE IF \/ IndexRaises(terraform_resources, "terraform")
          \/ IndexRaises(azure_resources, "azure")
          \/ IndexRaises(f5xc_resources, "f5xc")
  THEN [relationships |-> <<>>, raised |-> TRUE]
  ELSE [relationships |->
          Flatten([n \in 1..Len(order) |->
                     tag_relationships(
                       IndexGet(terraform_resources, "terraform", order[n], 1),
                       IndexGet(azure_resources, "azure", order[n], 1),
                       order[n])],
                  Len(order)),
        raised |-> FALSE]

(***************************************************************************)
(* ResourceCorrelator._correlate_by_ip                                     *)
(***************************************************************************)
_correlate_by_ip(enabled, f5xc_resources, azure_resources) ==
  IF ~enabled THEN <<>> ELSE <<>>

(***************************************************************************)
(* ResourceCorrelator._detect_drift                                        *)
(***************************************************************************)
\* tf_resource.values.get("location", ""), on which .lower() is called
ValuesLocation(tf_resource) == Get(tf_resource.values, "location", JStr(<<>>))

\* the comparison of the keys of the two dicts only
TagsDiffer_keys_only(tf_tags, azure_tags) ==
  IF tf_tags.t = "tags" THEN DOMAIN tf_tags.d # DOMAIN azure_tags ELSE TRUE

\* tf_tags != azure_tags, a dict compared with whatever values["tags"] holds
TagsDiffer(tf_tags, azure_tags) ==
  IF tf_tags.t = "tags" THEN tf_tags.d # azure_tags ELSE TRUE

tag_drift(tf_resource, azure_resource) ==
  LET tf_tags == Get(tf_resource.values, "tags", JTags(EmptyTags))
      azure_tags == azure_resource.tags
  IN IF TagsDiffer(tf_tags, azure_tags)
     THEN <<ConfigurationDrift(tf_resource.address, "tags", tf_tags, JTags(azure_tags),
                               [text |-> "Tag mismatch for ", name |-> tf_resource.name])>>
     ELSE <<>>

\* the comparison of the two locations without .lower()
location_drift_case_sensitive(tf_resource, azure_resource) ==
  LET tf_location == ValuesLocation(tf_resource).s
      azure_location == azure_resource.location
  IN IF tf_location # <<>> /\ tf_location # azure_location
     THEN <<ConfigurationDrift(tf_resource.address, "location", JStr(tf_location),
                               JStr(azure_location),
                               [text |-> "Location mismatch for ", name |-> tf_resource.name])>>
     ELSE <<>>

location_drift(tf_resource, azure_resource) ==
  LET tf_location == Lower(ValuesLocation(tf_resource).s)
      azure_location == Lower(azure_resource.location)
  IN IF tf_location # <<>> /\ tf_location # azure_location
     THEN <<ConfigurationDrift(tf_resource.address, "location", JStr(tf_location),
                               JStr(azure_location),
                               [text |-> "Location mismatch for ", name |-> tf_resource.name])>>
     ELSE <<>>

resource_drift(tf_resource, azure_resources) ==
  IF Matched(tf_resource, azure_resources)
  THEN LET azure_resource ==
             AzureLookup(azure_resources, Lower(ValuesId(tf_resource).s))
       IN tag_drift(tf_resource, azure_resource)
            \o location_drift(tf_resource, azure_resource)
  ELSE <<>>

\* one iteration of the loop raises when .lower() is called on a value that
\* is not a string: the id, or the location of a matched resource
DriftRaises(tf_resource, azure_resources) ==
  \/ LowerRaises(ValuesId(tf_resource))
  \/ /\ Matched(tf_resource, azure_resources)
     /\ LowerRaises(ValuesLocation(tf_resource))

_detect_drift(terraform_resources, azure_resources) ==
  IF \E i \in 1..Len(terraform_resources) :
       DriftRaises(terraform_resources[i], azure_resources)
  THEN [drift |-> <<>>, raised |-> TRUE]
  ELSE [drift |->
          Flatten([i \in 1..Len(terraform_resources) |->
                     resource_drift(terraform_resources[i], azure_resources)],
                  Len(terraform_resources)),
        raised |-> FALSE]

(***************************************************************************)
(* ResourceCorrelator.correlate                                            *)
(***************************************************************************)
\* all_resources without the extend() of the last list
all_resources_without_f5xc(terraform_resources, azure_resources, f5xc_resources) ==
  [i \in 1..Len(terraform_resources) |-> terraform_resources[i]]
    \o [i \in 1..Len(azure_resources) |-> azure_resources[i]]

\* r.model_dump(): the dict of the fields of the record, source included
model_dump(r) == [k \in DOMAIN r |-> r[k]]

\* all_resources: the dumps of the three lists, one after the other
all_resources(terraform_resources, azure_resources, f5xc_resources) ==
  [i \in 1..Len(terraform_resources) |-> model_dump(terraform_resources[i])]
    \o [i \in 1..Len(azure_resources) |-> model_dump(azure_resources[i])]
    \o [i \in 1..Len(f5xc_resources) |-> model_dump(f5xc_resources[i])]

\* the first list extended in place with the two others, as all_resources
\* would be if it were the list passed in and not a new one
arguments_after_extend_in_place(terraform_resources, azure_resources, f5xc_resources) ==
  [terraform_resources |-> terraform_resources \o azure_resources \o f5xc_resources,
   azure_resources |-> azure_resources,
   f5xc_resources |-> f5xc_resources]

\* the three lists of the caller when correlate() ends: the steps only read
\* them and their records, all_resources is a list of its own and
\* model_dump() builds new dicts
arguments_after(terraform_resources, azure_resources, f5xc_resources) ==
  [terraform_resources |-> terraform_resources,
   azure_resources |-> azure_resources,
   f5xc_resources |-> f5xc_resources]

\* the exception of the step leaving correlate() as it is, not wrapped
CorrelationError_not_wrapped(step) ==
  [status |-> "error", error |-> "AttributeError", cause |-> "none", step |-> step]

\* raise CorrelationError(...) from e
CorrelationError(step) ==
  [status |-> "error", error |-> "CorrelationError", cause |-> "AttributeError",
   step |-> step]

CorrelatedResources(resources, relationships, drift) ==
  [status |-> "ok", resources |-> resources, relationships |-> relationships,
   drift |-> drift]

\* the graph the call leaves and what it returns or raises, for a correlator
\* whose graph is g and whose options are tags, ip and drift_detection
correlate(g, tags, ip, drift_detection, terraform_resources, azure_resources, f5xc_resources, order) ==
  LET g1 == _add_resources_to_graph(g, terraform_resources, azure_resources,
                                    f5xc_resources)
      dep == _correlate_terraform_dependencies(g1, terraform_resources)
      tfaz == _correlate_terraform_to_azure(dep.graph, terraform_resources,
                                            azure_resources)
      f5az == _correlate_f5xc_to_azure(tfaz.graph, f5xc_resources, azure_resources)
      bytags == _correlate_by_tags(tags, terraform_resources, azure_resources,
                                   f5xc_resources, order)
      byip == _correlate_by_ip(ip, f5xc_resources, azure_resources)
      detected == IF drift_detection
                  THEN _detect_drift(terraform_resources, azure_resources)
                  ELSE [drift |-> <<>>, raised |-> FALSE]
  IN IF tfaz.raised
     THEN [graph |-> tfaz.graph,
           result |-> CorrelationError("_correlate_terraform_to_azure")]
     ELSE IF f5az.raised
     THEN [graph |-> f5az.graph,
           result |-> CorrelationError("_correlate_f5xc_to_azure")]
     ELSE IF bytags.raised
     THEN [graph |-> f5az.graph, result |-> CorrelationError("_correlate_by_tags")]
     ELSE IF detected.raised
     THEN [graph |-> f5az.graph, result |-> CorrelationError("_detect_drift")]
     ELSE [graph |-> f5az.graph,
           result |-> CorrelatedResources(
                        all_resources(terraform_resources, azure_resources,
                                      f5xc_resources),
                        dep.relationships \o tfaz.relationships \o f5az.relationships
                          \o bytags.relationships \o byip,
                        detected.drift)]

(***************************************************************************)
(* The records the input lists are drawn from.  Strings are kept short:    *)
(* "n.m" stands for an address such as azurerm_virtual_network.main,       *)
(* "/R/n" for an Azure resource id, "1.1.1.2" for an IP address.           *)
(***************************************************************************)
AddrVnet == <<"n", ".", "m">>
AddrSub == <<"s", ".", "i">>
AddrUnder == <<"n", "_", "m">>
AddrBad == <<"b", ".", "d">>
AddrTags == <<"t", ".", "g">>
AddrLoc == <<"l", ".", "c">>
AddrPlain == <<"p", ".", "q">>
\* the address of no record of any list
AddrGone == <<"g", ".", "z">>

IdVnet == <<"/", "R", "/", "n">>
IdVnetOtherCase == <<"/", "r", "/", "N">>
IdVm == <<"/", "R", "/", "v">>
IdVmNested == <<"/", "R", "/", "w">>
IdVnetFar == <<"/", "R", "/", "f">>
IdNowhere == <<"/", "R", "/", "x">>

IpA == <<"1", ".", "1", ".", "1", ".", "2">>
IpB == <<"1", ".", "1", ".", "1", ".", "3">>

Env == <<"e">>
Dev == <<"d">>
Prod == <<"p">>
TagsDev == [k \in {Env} |-> Dev]
TagsProd == [k \in {Env} |-> Prod]

TerraformResource(type, name, address, values, depends_on) ==
  [source |-> "terraform", type |-> type, name |-> name, address |-> address,
   values |-> values, depends_on |-> depends_on]

AzureResource(id, name, type, location, tags, properties) ==
  [source |-> "azure", id |-> id, name |-> name, type |-> type,
   location |-> location, resource_group |-> <<"r", "g">>, tags |-> tags,
   properties |-> properties]

F5XCResource(type, namespace, name, spec, metadata) ==
  [source |-> "f5xc", type |-> type, namespace |-> namespace, name |-> name,
   spec |-> spec, metadata |-> metadata]

\* id and tags equal to the virtual network's, location equal ignoring case
TfVnet ==
  TerraformResource(<<"v">>, <<"m">>, AddrVnet,
    [id |-> JStr(IdVnet), tags |-> JTags(TagsDev), location |-> JStr(<<"e", "a">>)],
    <<>>)
\* id equal ignoring case, other tags, another location; depends on TfVnet
TfSub ==
  TerraformResource(<<"s">>, <<"i">>, AddrSub,
    [id |-> JStr(IdVnetOtherCase), tags |-> JTags(TagsProd),
     location |-> JStr(<<"W", "e">>)],
    <<AddrVnet>>)
\* the id of no cloud record; depends on an address that is in no list
TfUnder ==
  TerraformResource(<<"v">>, <<"u">>, AddrUnder,
    [id |-> JStr(IdNowhere), tags |-> JTags(TagsDev), location |-> JStr(<<"w", "e">>)],
    <<AddrGone>>)
\* "id": null
TfBad == TerraformResource(<<"t">>, <<"b">>, AddrBad, [id |-> JNull], <<>>)
\* "tags": null, on a record that matches the virtual machine
TfNullTags ==
  TerraformResource(<<"m">>, <<"g">>, AddrTags,
    [id |-> JStr(IdVm), tags |-> JNull], <<AddrSub>>)
\* "location": null, on a record that matches the virtual network
TfNullLoc ==
  TerraformResource(<<"v">>, <<"c">>, AddrLoc,
    [id |-> JStr(IdVnet), location |-> JNull], <<>>)
\* no id, no tags, no location; names the same dependency twice
TfPlain ==
  TerraformResource(<<"k">>, <<"q">>, AddrPlain, <<>>, <<AddrVnet, AddrVnet>>)

TfPool == <<TfVnet, TfSub, TfUnder, TfBad, TfNullTags, TfNullLoc, TfPlain>>

AzVnet ==
  AzureResource(IdVnet, <<"h", "u", "b">>, VNET_TYPE, <<"E", "a">>, TagsDev,
                JDict(<<KV("provisioningState", JStr(<<"o", "k">>))>>))
\* a virtual machine whose address sits in a dict of a list of a dict
AzVm ==
  AzureResource(IdVm, <<"v", "m">>, VM_TYPE, <<"E", "a">>, TagsProd,
    JDict(<<KV("hardwareProfile", JDict(<<KV("vmSize", JStr(<<"D", "2">>))>>)),
            KV("networkProfile",
               JDict(<<KV("networkInterfaces",
                          JList(<<JDict(<<KV("privateIPAddress", JStr(IpA))>>)>>))>>))>>))
\* a virtual machine whose address sits in a list of a list; the other string
\* holds the digits of IpA after a letter
AzVmNested ==
  AzureResource(IdVmNested, <<"w">>, VM_TYPE, <<"E", "a">>, EmptyTags,
    JDict(<<KV("addresses", JList(<<JList(<<JStr(IpB)>>)>>)),
            KV("port", JNum(80)),
            KV("label", JStr(<<"v">> \o IpA))>>))
\* a virtual network whose name is no part of the site's name
AzVnetFar ==
  AzureResource(IdVnetFar, <<"f", "a", "r">>, VNET_TYPE, <<"W", "e">>, TagsProd,
                JDict(<<>>))

AzPool == <<AzVnet, AzVm, AzVmNested, AzVnetFar>>

Namespace == <<"p">>
F5Pool ==
  F5XCResource(ORIGIN_POOL, Namespace, <<"w">>,
    [origin_servers |->
       <<[private_ip |-> [ip |-> IpA]], [public_ip |-> [ip |-> IpB]],
         [public_ip |-> <<>>]>>],
    [labels |-> JTags(TagsProd)])
\* an origin whose public_ip has no ip, and an origin with neither key
F5PoolNoIp ==
  F5XCResource(ORIGIN_POOL, Namespace, <<"e">>,
    [origin_servers |-> <<[public_ip |-> <<>>], <<>>>>],
    <<>>)
\* an origin whose public_ip is null
F5PoolBad ==
  F5XCResource(ORIGIN_POOL, Namespace, <<"b">>,
    [origin_servers |-> <<[public_ip |-> JNull]>>],
    <<>>)
F5Site ==
  F5XCResource(SITE, Namespace, <<"H", "u", "b", "1">>, <<>>,
               [labels |-> JTags(TagsDev)])
\* a site whose name is a part of the name of AzVnet
F5SiteIn ==
  F5XCResource(SITE, Namespace, <<"U">>, <<>>, <<>>)
F5Lb ==
  F5XCResource(<<"h","t","t","p","_","l","o","a","d","b","a","l","a","n","c","e","r">>,
               Namespace, <<"h", "u", "b">>, <<>>, <<>>)

F5XCPool == <<F5Pool, F5PoolNoIp, F5PoolBad, F5Site, F5SiteIn, F5Lb>>

\* the records of pool at the indices S, in the order of the pool
RECURSIVE Pick(_, _, _)
Pick(pool, S, i) ==
  IF i > Len(pool) THEN <<>>
  ELSE (IF i \in S THEN <<pool[i]>> ELSE <<>>) \o Pick(pool, S, i + 1)

\* the index sets of the lists of at most n records of pool
Choices(pool, n) == {S \in SUBSET (1..Len(pool)) : Cardinality(S) <= n}

(***************************************************************************)
(* State                                                                   *)
(***************************************************************************)
VARIABLES
  match_by_tags,            \* self.match_by_tags
  match_by_ip,              \* self.match_by_ip
  enable_drift_detection,   \* self.enable_drift_detection
  graph,                    \* self.graph
  calls,                    \* the correlate() calls made on this correlator
  terraform_resources,      \* the lists given to the last correlate() call,
  azure_resources,          \* as the caller finds them after the call
  f5xc_resources,
  passed,                   \* a copy of them the caller made before the call
  result,                   \* what the last correlate() call returned or raised
  used,                     \* the options of the correlator that made that call
  prev,                     \* the run before it, when it had the same arguments
  collector,                \* the collector whose collect_resources() was called
  script,                   \* what its calls to the outside do, in order
  made,                     \* how many calls to the outside it made
  log,                      \* what each call to the outside gave the collector
  decorator,                \* the retry_on_exception arguments of the call
  collected,                \* what collect_resources() returned or raised
  renderer,                 \* the generator whose generate method was called
  given,                    \* the correlated resources it was called with
  shapes,                   \* the shapes it made, by the key it files them under
  lines,                    \* the connectors it made, in order
  outside,                  \* what the file system, the drawio command and the
                            \* Lucid servers did in the call
  uploads,                  \* the uploads _upload_document attempted
  uploaded,                 \* what _upload_document returned or raised
  generated,                \* what the generate method returned or raised
  pc,                       \* the statement main of cli.py is at
  ran,                      \* the phases main called, in order, and how each ended
  locals,                   \* the local variables of main
  exit_status               \* the exit status of the process, once it exited

correlation == <<match_by_tags, match_by_ip, enable_drift_detection, graph, calls,
                 terraform_resources, azure_resources, f5xc_resources, passed,
                 result, used, prev>>

collection == <<collector, script, made, log, decorator, collected>>

rendering == <<renderer, given, shapes, lines, outside, uploads, uploaded, generated>>

process == <<pc, ran, locals, exit_status>>

vars == <<correlation, collection, rendering, process>>

NoResult == [status |-> "none"]
\* @retry_on_exception(max_attempts=..., exceptions=...), or no decorator
Decorator(max_attempts, exceptions) ==
  [max_attempts |-> max_attempts, exceptions |-> exceptions]
NotDecorated == Decorator(0, {})
NoRun == [result |-> NoResult]
Options(tags, ip, drift_detection) ==
  [match_by_tags |-> tags, match_by_ip |-> ip,
   enable_drift_detection |-> drift_detection]

\* ResourceCorrelator.__init__
Construct(tags, ip, drift_detection) ==
  /\ match_by_tags' = tags
  /\ match_by_ip' = ip
  /\ enable_drift_detection' = drift_detection
  /\ graph' = EmptyGraph
  /\ calls' = 0

Init ==
  /\ match_by_tags \in BOOLEAN
  /\ match_by_ip \in BOOLEAN
  /\ enable_drift_detection \in BOOLEAN
  /\ graph = EmptyGraph
  /\ calls = 0
  /\ terraform_resources = <<>>
  /\ azure_resources = <<>>
  /\ f5xc_resources = <<>>
  /\ passed = [terraform_resources |-> <<>>, azure_resources |-> <<>>,
               f5xc_resources |-> <<>>]
  /\ result = NoResult
  /\ used = Options(match_by_tags, match_by_ip, enable_drift_detection)
  /\ prev = NoRun
  /\ collector = "none"
  /\ script = <<>>
  /\ made = 0
  /\ log = <<>>
  /\ decorator = NotDecorated
  /\ collected = NoResult
  /\ renderer = "none"
  /\ given = NoResult
  /\ shapes = <<>>
  /\ lines = <<>>
  /\ outside = <<>>
  /\ uploads = 0
  /\ uploaded = NoResult
  /\ generated = NoResult
  /\ pc = "terraform"
  /\ ran = <<>>
  /\ locals = [terraform_resources |-> <<>>, azure_resources |-> <<>>,
               f5xc_resources |-> <<>>, correlated |-> NoResult]
  /\ exit_status = NoResult

\* the orders in which _correlate_by_tags may visit all_tags in a call
TagOrders(tf, az, f5) ==
  IF match_by_tags /\ ~IndexRaises(tf, "terraform") /\ ~IndexRaises(f5, "f5xc")
  THEN Orders(AllTags(tf, az, f5))
  ELSE {<<>>}

\* a call correlate(tf, az, f5) on the correlator
Correlate(tf, az, f5) ==
  \E order \in TagOrders(tf, az, f5) :
    \E out \in {correlate(graph, match_by_tags, match_by_ip, enable_drift_detection,
                          tf, az, f5, order)} :
       /\ graph' = out.graph
       /\ result' = out.result
       /\ calls' = calls + 1
       /\ terraform_resources' = arguments_after(tf, az, f5).terraform_resources
       /\ azure_resources' = arguments_after(tf, az, f5).azure_resources
       /\ f5xc_resources' = arguments_after(tf, az, f5).f5xc_resources
       /\ passed' = [terraform_resources |-> tf, azure_resources |-> az,
                     f5xc_resources |-> f5]
       /\ prev' = IF /\ result.status # "none"
                     /\ tf = terraform_resources
                     /\ az = azure_resources
                     /\ f5 = f5xc_resources
                  THEN [result |-> result, options |-> used,
                        same_instance |-> calls > 0]
                  ELSE NoRun
       /\ used' = Options(match_by_tags, match_by_ip, enable_drift_detection)
       /\ UNCHANGED <<match_by_tags, match_by_ip, enable_drift_detection>>
       /\ UNCHANGED collection

\* the caller builds another ResourceCorrelator in place of a used one; the
\* run it made last stays the one the next run is compared with
NewCorrelator ==
  /\ calls > 0
  /\ \E tags, ip, drift_detection \in BOOLEAN : Construct(tags, ip, drift_detection)
  /\ prev' = NoRun
  /\ UNCHANGED <<terraform_resources, azure_resources, f5xc_resources, passed,
                 result, used>>
  /\ UNCHANGED <<collection, rendering, process>>

\* cli.py: one correlator, one correlate() call on the collected lists
CorrelateOnce ==
  /\ calls = 0
  /\ \E T \in Choices(TfPool, MaxTf), A \in Choices(AzPool, MaxAz),
        F \in Choices(F5XCPool, MaxF5) :
       Correlate(Pick(TfPool, T, 1), Pick(AzPool, A, 1), Pick(F5XCPool, F, 1))
  /\ UNCHANGED <<rendering, process>>

Next == CorrelateOnce

Spec == Init /\ [][Next]_vars

(***************************************************************************)
(* A caller that keeps its correlators: it calls correlate() again on the  *)
(* same correlator, with the same lists or with others, and builds new     *)
(* correlators with other options.                                         *)
(***************************************************************************)
ReuseTfPool == <<TfVnet, TfSub, TfNullTags>>
ReuseAzPool == <<AzVnet, AzVm>>
ReuseF5XCPool == <<F5Pool>>

\* the lists of cloud and edge records of a call: none, or all of them
ReuseClouds == {{}, 1..Len(ReuseAzPool)}

CorrelateAgain ==
  /\ calls < MaxCalls
  /\ \E T \in Choices(ReuseTfPool, MaxTf), A \in ReuseClouds :
       Correlate(Pick(ReuseTfPool, T, 1), Pick(ReuseAzPool, A, 1),
                 IF A = {} THEN <<>> ELSE ReuseF5XCPool)
  /\ UNCHANGED <<rendering, process>>

NextReuse == CorrelateAgain \/ NewCorrelator

SpecReuse == Init /\ [][NextReuse]_vars

(***************************************************************************)
(* The collectors.  A call either returns a value or raises an exception;  *)
(* an exception is named by its class, with the exception it was raised    *)
(* from as its cause.                                                      *)
(***************************************************************************)
Return(value) == [status |-> "ok", value |-> value]
Raise(error, cause) == [status |-> "error", error |-> error, cause |-> cause]

\* the base class of each exception class the collectors meet
ExceptionBase ==
  [CalledProcessError |-> "SubprocessError", TimeoutExpired |-> "SubprocessError",
   SubprocessError |-> "Exception",
   JSONDecodeError |-> "ValueError", ValidationError |-> "ValueError",
   ValueError |-> "Exception", AttributeError |-> "Exception",
   FileNotFoundError |-> "OSError", OSError |-> "Exception",
   HttpResponseError |-> "AzureError", AzureError |-> "Exception",
   HTTPError |-> "RequestException", Timeout |-> "RequestException",
   ConnectionError |-> "RequestException",
   RequestsJSONDecodeError |-> "RequestException",
   RequestException |-> "OSError",
   DiagramGeneratorError |-> "Exception", TerraformStateError |-> "DiagramGeneratorError",
   AzureAPIError |-> "DiagramGeneratorError", F5XCAPIError |-> "DiagramGeneratorError",
   LucidAPIError |-> "DiagramGeneratorError",
   AuthenticationError |-> "DiagramGeneratorError",
   DiagramGenerationError |-> "DiagramGeneratorError",
   RecursionError |-> "RuntimeError", RuntimeError |-> "Exception"]

\* isinstance(e, classes), which is what an except clause tests
RECURSIVE isinstance(_, _)
isinstance(error, classes) ==
  \/ error \in classes
  \/ /\ error \in DOMAIN ExceptionBase
     /\ isinstance(ExceptionBase[error], classes)

\* a wrapper that calls the function again after any exception
RECURSIVE wrapper_retries_any(_, _, _, _)
wrapper_retries_any(func, max_attempts, exceptions, attempt) ==
  IF attempt > max_attempts
  THEN [outcome |-> Raise("DiagramGeneratorError", "none"), attempts |-> attempt - 1]
  ELSE IF func[attempt].status = "ok"
  THEN [outcome |-> func[attempt], attempts |-> attempt]
  ELSE IF attempt = max_attempts
  THEN [outcome |-> func[attempt], attempts |-> attempt]
  ELSE wrapper_retries_any(func, max_attempts, exceptions, attempt + 1)

\* wrapper of retry_on_exception from its pass `attempt` on, func[k] being
\* what the k-th call of the decorated function does: what the wrapper
\* returns or raises, and the calls of the function it made
RECURSIVE wrapper(_, _, _, _)
wrapper(func, max_attempts, exceptions, attempt) ==
  IF attempt > max_attempts
  THEN [outcome |-> Raise("DiagramGeneratorError", "none"), attempts |-> attempt - 1]
  ELSE IF func[attempt].status = "ok"
  THEN [outcome |-> func[attempt], attempts |-> attempt]
  ELSE IF ~isinstance(func[attempt].error, exceptions)
  THEN [outcome |-> func[attempt], attempts |-> attempt]
  ELSE IF attempt = max_attempts
  THEN [outcome |-> func[attempt], attempts |-> attempt]
  ELSE wrapper(func, max_attempts, exceptions, attempt + 1)

Unknown == <<"u", "n", "k", "n", "o", "w", "n">>
Unnamed == <<"u", "n", "n", "a", "m", "e", "d">>

\* a field declared `str` takes a str and nothing else
IsStr(value) == value.t = "str"

(***************************************************************************)
(* TerraformStateCollector                                                 *)
(***************************************************************************)
\* what `terraform show -json` printed: a JSON document, or other text
Json(document) == [text |-> "json", json |-> document]
NotJson == [text |-> "other"]

\* json.loads(result.stdout)
json_loads(stdout) ==
  IF stdout.text = "json" THEN Return(stdout.json) ELSE Raise("JSONDecodeError", "none")

\* _get_terraform_state, run being what subprocess.run did
_get_terraform_state(run) ==
  LET out == IF run.status = "ok" THEN json_loads(run.value) ELSE run
  IN IF out.status = "ok" THEN out
     ELSE IF isinstance(out.error, {"CalledProcessError"})
     THEN Raise("TerraformStateError", out.error)
     ELSE IF isinstance(out.error, {"JSONDecodeError"})
     THEN Raise("TerraformStateError", out.error)
     ELSE IF isinstance(out.error, {"FileNotFoundError"})
     THEN Raise("TerraformStateError", out.error)
     ELSE out

\* the try block of the loop of TerraformStateCollector._parse_resources on
\* one entry of the resource list: the record it appends, or the exception
\* of resource.get on an entry that is no dict or of the validation
terraform_parse_try(resource) ==
  IF resource = JNull THEN Raise("AttributeError", "none")
  ELSE IF /\ IsStr(Get(resource, "type", JStr(Unknown)))
          /\ IsStr(Get(resource, "name", JStr(Unnamed)))
          /\ IsStr(Get(resource, "address", JStr(<<>>)))
          /\ Get(resource, "values", <<>>) # JNull
  THEN Return(TerraformResource(Get(resource, "type", JStr(Unknown)).s,
                                Get(resource, "name", JStr(Unnamed)).s,
                                Get(resource, "address", JStr(<<>>)).s,
                                Get(resource, "values", <<>>),
                                Get(resource, "depends_on", <<>>)))
  ELSE Raise("ValidationError", "none")

\* the body of the loop of _parse_resources, tried being what its try block
\* did: the records the entry adds, or the exception that leaves the loop.
\* The except clause reads resource.get(...) for its log line before it
\* continues.
parse_resource(tried, resource) ==
  IF tried.status = "ok" THEN Return(<<tried.value>>)
  ELSE IF ~isinstance(tried.error, {"Exception"}) THEN tried
  ELSE IF resource = JNull THEN Raise("AttributeError", tried.error)
  ELSE Return(<<>>)

\* the loop of _parse_resources over bodies[i..], the outcomes of its body on
\* the entries: the list it builds, or the exception of the first body that
\* raises
RECURSIVE parse_list(_, _)
parse_list(bodies, i) ==
  IF i > Len(bodies) THEN Return(<<>>)
  ELSE IF bodies[i].status = "error" THEN bodies[i]
  ELSE IF parse_list(bodies, i + 1).status = "error" THEN parse_list(bodies, i + 1)
  ELSE Return(bodies[i].value \o parse_list(bodies, i + 1).value)

\* TerraformStateCollector._parse_resources
terraform_parse_resources(state_data) ==
  LET root_module == Get(Get(state_data, "values", <<>>), "root_module", <<>>)
      resource_list == Get(root_module, "resources", <<>>)
  IN parse_list([i \in 1..Len(resource_list) |->
                   parse_resource(terraform_parse_try(resource_list[i]),
                                  resource_list[i])], 1)

\* the body of TerraformStateCollector.collect_resources
terraform_collect_resources_body(run) ==
  LET state_data == _get_terraform_state(run)
      out == IF state_data.status = "ok"
             THEN terraform_parse_resources(state_data.value)
             ELSE state_data
  IN IF out.status = "ok" THEN out
     ELSE IF isinstance(out.error, {"Exception"})
     THEN Raise("TerraformStateError", out.error)
     ELSE out

TerraformMaxAttempts == 2
TerraformRetried == {"SubprocessError"}

\* TerraformStateCollector.collect_resources as decorated, runs[k] being
\* what the k-th subprocess.run does
terraform_collect_resources(runs) ==
  wrapper([k \in DOMAIN runs |-> terraform_collect_resources_body(runs[k])],
          TerraformMaxAttempts, TerraformRetried, 1)

\* entries of a resource list: a subnet that depends on the network, an
\* entry with no key at all, and one whose type is null
TfEntrySub ==
  [type |-> JStr(<<"s">>), name |-> JStr(<<"i">>), address |-> JStr(AddrSub),
   values |-> [id |-> JStr(IdVnet)], depends_on |-> <<AddrVnet>>]
TfEntryBare == <<>>
TfEntryNull == [type |-> JNull, name |-> JStr(<<"b">>), address |-> JStr(AddrBad)]

\* {"values": {"root_module": {"resources": [...]}}}
StateOf(resource_list) == [values |-> [root_module |-> [resources |-> resource_list]]]

\* what subprocess.run and the terraform command may do
TerraformRuns ==
  {Return(Json(StateOf(<<>>))), Return(Json(<<>>)),
   Return(Json(StateOf(<<TfEntrySub, TfEntryNull, TfEntryBare>>))),
   Return(Json(StateOf(<<TfEntrySub, JNull>>))),
   Return(NotJson),
   Raise("CalledProcessError", "none"), Raise("TimeoutExpired", "none"),
   Raise("FileNotFoundError", "none")}

\* the scripts of n calls with outcomes from a set
Scripts(outcomes, n) == [1..n -> outcomes]

\* collector.collect_resources() of a TerraformStateCollector
TerraformCollect ==
  /\ collector = "none"
  /\ \E runs \in Scripts(TerraformRuns, TerraformMaxAttempts) :
       LET out == terraform_collect_resources(runs)
       IN /\ collector' = "terraform"
          /\ script' = runs
          /\ made' = out.attempts
          /\ log' = [k \in 1..out.attempts |-> terraform_collect_resources_body(runs[k])]
          /\ decorator' = Decorator(TerraformMaxAttempts, TerraformRetried)
          /\ collected' = out.outcome
  /\ UNCHANGED <<correlation, rendering, process>>

(***************************************************************************)
(* AzureResourceGraphCollector                                             *)
(***************************************************************************)
\* the index of the first sep in s from i on, 0 if there is none
RECURSIVE FindChar(_, _, _)
FindChar(s, sep, i) ==
  IF i > Len(s) THEN 0
  ELSE IF s[i] = sep THEN i
  ELSE FindChar(s, sep, i + 1)

\* s.split(sep) for a separator of one character
RECURSIVE Split(_, _)
Split(s, sep) ==
  LET i == FindChar(s, sep, 1)
  IN IF i = 0 THEN <<s>>
     ELSE <<SubSeq(s, 1, i - 1)>> \o Split(SubSeq(s, i + 1, Len(s)), sep)

ResourceGroups == <<"r","e","s","o","u","r","c","e","G","r","o","u","p","s">>

\* AzureResourceGraphCollector._extract_resource_group
_extract_resource_group(resource_id) ==
  LET parts == Split(resource_id, "/")
      found == {i \in 1..Len(parts) : parts[i] = ResourceGroups}
  IN IF found = {} THEN Unknown
     ELSE LET rg_index == CHOOSE i \in found : \A j \in found : i <= j
          IN IF rg_index + 1 <= Len(parts) THEN parts[rg_index + 1] ELSE Unknown

\* AzureResource.convert_none_to_dict
convert_none_to_dict(value, empty) == IF value = JNull THEN empty ELSE value

\* the try block of the loop of AzureResourceGraphCollector._parse_resources
\* on one entry of the data: the record it appends, or the exception of
\* resource.get on an entry that is no dict, of resource_id.split on an id
\* that is no string, or of the validation
azure_parse_try(resource) ==
  IF resource = JNull THEN Raise("AttributeError", "none")
  ELSE IF ~IsStr(Get(resource, "id", JStr(<<>>))) THEN Raise("AttributeError", "none")
  ELSE IF /\ IsStr(Get(resource, "name", JStr(Unnamed)))
          /\ IsStr(Get(resource, "type", JStr(Unknown)))
          /\ IsStr(Get(resource, "location", JStr(Unknown)))
  THEN Return([AzureResource(Get(resource, "id", JStr(<<>>)).s,
                 Get(resource, "name", JStr(Unnamed)).s,
                 Get(resource, "type", JStr(Unknown)).s,
                 Get(resource, "location", JStr(Unknown)).s,
                 convert_none_to_dict(Get(resource, "tags", EmptyTags), EmptyTags),
                 convert_none_to_dict(Get(resource, "properties", JDict(<<>>)),
                                      JDict(<<>>)))
               EXCEPT !.resource_group =
                 _extract_resource_group(Get(resource, "id", JStr(<<>>)).s)])
  ELSE Raise("ValidationError", "none")

\* AzureResourceGraphCollector._parse_resources
azure_parse_resources(query_result) ==
  LET data == Get(query_result, "data", <<>>)
  IN parse_list([i \in 1..Len(data) |->
                   parse_resource(azure_parse_try(data[i]), data[i])], 1)

\* AzureResourceGraphCollector._execute_query, response being what
\* self.client.resources(request) did
_execute_query(response) ==
  IF response.status = "ok"
  THEN Return([data |-> response.value.data,
               total_records |-> response.value.total_records,
               count |-> response.value.count])
  ELSE response

\* the body of AzureResourceGraphCollector.collect_resources
azure_collect_resources_body(response) ==
  LET query_result == _execute_query(response)
      out == IF query_result.status = "ok"
             THEN azure_parse_resources(query_result.value)
             ELSE query_result
  IN IF out.status = "ok" THEN out
     ELSE IF isinstance(out.error, {"Exception"})
     THEN Raise("AzureAPIError", out.error)
     ELSE out

AzureMaxAttempts == 3
AzureRetried == {"AzureError"}

\* AzureResourceGraphCollector.collect_resources as decorated, responses[k]
\* being what the k-th self.client.resources(request) does
azure_collect_resources(responses) ==
  wrapper([k \in DOMAIN responses |-> azure_collect_resources_body(responses[k])],
          AzureMaxAttempts, AzureRetried, 1)

IdInGroup ==
  <<"/">> \o ResourceGroups \o <<"/", "g", "/", "n">>

\* entries of the data of a response: a network in resource group g with
\* null tags, an entry with a name only, and one whose id is null
AzEntryVnet ==
  [id |-> JStr(IdInGroup), name |-> JStr(<<"h", "u", "b">>), type |-> JStr(VNET_TYPE),
   location |-> JStr(<<"E", "a">>), tags |-> JNull,
   properties |-> JDict(<<>>)]
AzEntryNamed == [name |-> JStr(<<"w">>)]
AzEntryNull == [id |-> JNull, name |-> JStr(<<"x">>)]

\* the QueryResponse with these data
QueryResponse(data) == [data |-> data, total_records |-> Len(data), count |-> Len(data)]

\* what self.client.resources(request) may do
AzureResponses ==
  {Return(QueryResponse(<<>>)),
   Return(QueryResponse(<<AzEntryVnet, AzEntryNull, AzEntryNamed>>)),
   Return(QueryResponse(<<AzEntryVnet, JNull>>)),
   Raise("AzureError", "none"), Raise("HttpResponseError", "none")}

\* collector.collect_resources() of an AzureResourceGraphCollector
AzureCollect ==
  /\ collector = "none"
  /\ \E responses \in Scripts(AzureResponses, AzureMaxAttempts) :
       LET out == azure_collect_resources(responses)
       IN /\ collector' = "azure"
          /\ script' = responses
          /\ made' = out.attempts
          /\ log' = [k \in 1..out.attempts |-> azure_collect_resources_body(responses[k])]
          /\ decorator' = Decorator(AzureMaxAttempts, AzureRetried)
          /\ collected' = out.outcome
  /\ UNCHANGED <<correlation, rendering, process>>

(***************************************************************************)
(* F5XCCollector                                                           *)
(***************************************************************************)
\* Python's None
None == [t |-> "None"]

\* a response of the session: its status code, the body it carries, and
\* whether the HTTPError of its status check carries the response, as
\* requests.Response.raise_for_status builds it, or none, which the
\* exception class allows (response=None is its default)
Response(status_code, body, attached) ==
  [status_code |-> status_code, body |-> body, attached |-> attached]

\* a body that is no JSON document: response.json() raises `raises`
Text(raises) == [text |-> "other", raises |-> raises]

\* requests.exceptions.HTTPError(..., response=response)
HTTPError(response) ==
  [status |-> "error", error |-> "HTTPError", cause |-> "none", response |-> response]

\* response.raise_for_status()
raise_for_status(response) ==
  IF 400 <= response.status_code /\ response.status_code < 600
  THEN HTTPError(IF response.attached THEN [status_code |-> response.status_code]
                 ELSE None)
  ELSE Return(None)

\* response.json(): a body that is no JSON raises requests' JSONDecodeError,
\* a RequestException, from requests 2.27 on and json's, a ValueError, before
response_json(response) ==
  IF response.body.text = "json" THEN Return(response.body.json)
  ELSE Raise(response.body.raises, "none")

\* the try block of F5XCCollector._make_request, get being what
\* self.session.get(url, params=params, timeout=30) did
make_request_try(get) ==
  IF get.status = "error" THEN get
  ELSE IF raise_for_status(get.value).status = "error" THEN raise_for_status(get.value)
  ELSE response_json(get.value)

\* the except clauses of F5XCCollector._make_request on an exception of the
\* try block; the first reads e.response.status_code for its log line
make_request_except(out) ==
  IF isinstance(out.error, {"HTTPError"})
  THEN IF out.response = None THEN Raise("AttributeError", out.error)
       ELSE Raise("F5XCAPIError", out.error)
  ELSE IF isinstance(out.error, {"RequestException"})
  THEN Raise("F5XCAPIError", out.error)
  ELSE out

\* F5XCCollector._make_request
_make_request(get) ==
  IF make_request_try(get).status = "ok" THEN make_request_try(get)
  ELSE make_request_except(make_request_try(get))

HTTP_LOADBALANCER == <<"h","t","t","p","_","l","o","a","d","b","a","l","a","n","c","e","r">>
VIRTUAL_SITE == <<"v","i","r","t","u","a","l","_","s","i","t","e">>
System == <<"s","y","s","t","e","m">>

\* the body of the loop of a per-type collector: the record an entry of
\* the items gives, or the exception it raises
collect_item(type, namespace, item) ==
  IF Get(item, "metadata", <<>>) = JNull
  THEN Raise("AttributeError", "none")
  ELSE IF ~IsStr(Get(Get(item, "metadata", <<>>), "name", JStr(Unknown)))
  THEN Raise("ValidationError", "none")
  ELSE Return(F5XCResource(type, namespace,
                Get(Get(item, "metadata", <<>>), "name", JStr(Unknown)).s,
                Get(item, "spec", <<>>), Get(item, "metadata", <<>>)))

\* the try block of a per-type collector from the items on
collect_items(type, namespace, items) ==
  IF \E i \in 1..Len(items) : collect_item(type, namespace, items[i]).status = "error"
  THEN LET i == CHOOSE i \in 1..Len(items) :
                  /\ collect_item(type, namespace, items[i]).status = "error"
                  /\ \A j \in 1..(i - 1) :
                       collect_item(type, namespace, items[j]).status = "ok"
       IN collect_item(type, namespace, items[i])
  ELSE Return([i \in 1..Len(items) |-> collect_item(type, namespace, items[i]).value])

\* a per-type collector that lets the exception of its request out
collect_type_request_raises(type, namespace, get) ==
  IF _make_request(get).status = "error" THEN _make_request(get)
  ELSE LET out == collect_items(type, namespace, Get(_make_request(get).value, "items", <<>>))
       IN IF out.status = "error" /\ isinstance(out.error, {"Exception"})
          THEN Return(<<>>)
          ELSE out

\* a per-type collector: the request, the loop over the items, and the
\* except clause that gives [] for any exception of the two
collect_type(type, namespace, get) ==
  LET response == _make_request(get)
      out == IF response.status = "error" THEN response
             ELSE collect_items(type, namespace, Get(response.value, "items", <<>>))
  IN IF out.status = "error" /\ isinstance(out.error, {"Exception"})
     THEN Return(<<>>)
     ELSE out

\* F5XCCollector.collect_http_loadbalancers
collect_http_loadbalancers(namespace, get) == collect_type(HTTP_LOADBALANCER, namespace, get)

\* F5XCCollector.collect_origin_pools
collect_origin_pools(namespace, get) == collect_type(ORIGIN_POOL, namespace, get)

\* F5XCCollector.collect_virtual_sites
collect_virtual_sites(namespace, get) == collect_type(VIRTUAL_SITE, namespace, get)

\* F5XCCollector.collect_sites
collect_sites(get) == collect_type(SITE, System, get)

\* what the four per-type collectors give, in the order collect_resources
\* calls them, gets[k] being what the k-th self.session.get does
per_type(namespace, gets) ==
  <<collect_http_loadbalancers(namespace, gets[1]),
    collect_origin_pools(namespace, gets[2]),
    collect_virtual_sites(namespace, gets[3]),
    collect_sites(gets[4])>>

\* the per-type collectors that were called: up to the first that raised
Called(outs) ==
  {k \in 1..Len(outs) : \A j \in 1..(k - 1) : outs[j].status = "ok"}

\* resources.extend(...) of the four lists
f5xc_extend(outs) ==
  outs[1].value \o outs[2].value \o outs[3].value \o outs[4].value

\* F5XCCollector.collect_resources
f5xc_collect_resources(namespace, gets) ==
  LET outs == per_type(namespace, gets)
  IN IF \A k \in 1..Len(outs) : outs[k].status = "ok"
     THEN Return(f5xc_extend(outs))
     ELSE LET k == CHOOSE k \in Called(outs) : outs[k].status = "error"
          IN IF isinstance(outs[k].error, {"Exception"})
             THEN Raise("F5XCAPIError", outs[k].error)
             ELSE outs[k]

\* entries of the items of a response: one with a name, one with no key at
\* all, and one whose metadata is null
F5ItemHub == [metadata |-> [name |-> JStr(<<"h", "u", "b">>)], spec |-> <<>>]
F5ItemBare == <<>>
F5ItemNull == [metadata |-> JNull]

\* what self.session.get and the service may do
F5XCGets ==
  {Raise("Timeout", "none"), Raise("ConnectionError", "none"),
   Return(Response(404, Text("RequestsJSONDecodeError"), TRUE)),
   Return(Response(404, Text("RequestsJSONDecodeError"), FALSE)),
   Return(Response(200, Text("RequestsJSONDecodeError"), TRUE)),
   Return(Response(200, Text("JSONDecodeError"), TRUE)),
   Return(Response(200, Json(<<>>), TRUE)),
   Return(Response(200, Json([items |-> <<F5ItemHub, F5ItemBare>>]), TRUE)),
   Return(Response(200, Json([items |-> <<F5ItemHub, F5ItemNull>>]), TRUE))}

F5XCRequests == 4

\* collector.collect_resources() of an F5XCCollector, as cli.py calls it
F5XCCollect ==
  /\ collector = "none"
  /\ \E gets \in Scripts(F5XCGets, F5XCRequests) :
       LET outs == per_type(System, gets)
       IN /\ collector' = "f5xc"
          /\ script' = gets
          /\ made' = Cardinality(Called(outs))
          /\ log' = [k \in Called(outs) |-> _make_request(gets[k])]
          /\ decorator' = NotDecorated
          /\ collected' = f5xc_collect_resources(System, gets)
  /\ UNCHANGED <<correlation, rendering, process>>

(***************************************************************************)
(* retry_on_exception around any function: the decorator's arguments and   *)
(* what the function does at each invocation are drawn from small sets.    *)
(***************************************************************************)
\* what an invocation of a decorated function may do
WrappedOutcomes ==
  {Return(1), Return(2), Raise("ValueError", "none"),
   Raise("FileNotFoundError", "none"), Raise("AttributeError", "none")}

\* the tuples of exception classes given as `exceptions`
WrappedExceptions == {{"ValueError"}, {"OSError"}, {"ValueError", "OSError"}, {"Exception"}}

\* a call of a function decorated with retry_on_exception(max_attempts=n,
\* exceptions=E), func[k] being what its k-th invocation does
WrappedCall ==
  /\ collector = "none"
  /\ \E n \in 1..MaxAttempts, E \in WrappedExceptions :
       \E func \in Scripts(WrappedOutcomes, n) :
         LET out == wrapper(func, n, E, 1)
         IN /\ collector' = "wrapped"
            /\ script' = func
            /\ made' = out.attempts
            /\ log' = [k \in 1..out.attempts |-> func[k]]
            /\ decorator' = Decorator(n, E)
            /\ collected' = out.outcome
  /\ UNCHANGED <<correlation, rendering, process>>

NextRetry == WrappedCall

SpecRetry == Init /\ [][NextRetry]_vars

\* cli.py: the collectors, each called on its own outcomes of the outside
NextCollect == TerraformCollect \/ AzureCollect \/ F5XCCollect

SpecCollect == Init /\ [][NextCollect]_vars

(***************************************************************************)
(* The diagram generators.  Each is called with the CorrelatedResources of *)
(* a correlate() call that returned.                                       *)
(***************************************************************************)
\* the results of the correlate() calls that returned, on a correlator with
\* the options of this one
CorrelatedOf(tf, az, f5) ==
  {correlate(EmptyGraph, match_by_tags, match_by_ip, enable_drift_detection,
             tf, az, f5, order).result : order \in TagOrders(tf, az, f5)}

Correlated ==
  {r \in UNION {CorrelatedOf(Pick(ReuseTfPool, T, 1), Pick(ReuseAzPool, A, 1),
                             IF A = {} THEN <<>> ELSE ReuseF5XCPool) :
                  T \in Choices(ReuseTfPool, MaxTf), A \in ReuseClouds} :
     r.status = "ok"}

DecimalDigits == <<"0", "1", "2", "3", "4", "5", "6", "7", "8", "9">>

\* str(n) of a natural number
RECURSIVE str(_)
str(n) ==
  IF n < 10 THEN <<DecimalDigits[n + 1]>>
  ELSE str(n \div 10) \o <<DecimalDigits[(n % 10) + 1]>>

\* the dict a loop leaves that files values[i] under keys[i] for each index
\* i in turn: a key filed twice keeps what was filed last
Filed(keys, values) ==
  [k \in Range(keys) |->
     values[CHOOSE i \in DOMAIN keys :
              /\ keys[i] = k
              /\ \A j \in DOMAIN keys : keys[j] = k => j <= i]]

(***************************************************************************)
(* DrawioDiagramGenerator with group_by_platform off: the flat layout,     *)
(* called without load balancer and route relationships                    *)
(***************************************************************************)
\* resource.get("id", resource.get("name", "")), the key of a shape
drawio_shape_key(resource) == Get(resource, "id", Get(resource, "name", <<>>))

\* _create_flat_layout: one cell per resource, numbered from cell_id on and
\* filed in shapes under the key of the resource
_create_flat_layout(resources, cell_id) ==
  [cell_id |-> cell_id + Len(resources),
   shapes |-> Filed([i \in DOMAIN resources |-> drawio_shape_key(resources[i])],
                    [i \in DOMAIN resources |-> str(cell_id + i - 1)])]

\* the edge cells _generate_connections adds to root, numbered from cell_id
\* on; shapes.get() of a key that is not there is None, as falsy as the
\* empty string
_generate_connections(relationships, filed, cell_id) ==
  LET connected ==
        SelectSeq(relationships,
                  LAMBDA relationship :
                    /\ Get(filed, relationship.source_id, <<>>) # <<>>
                    /\ Get(filed, relationship.target_id, <<>>) # <<>>)
  IN [n \in DOMAIN connected |->
        [id |-> str(cell_id + n - 1), source |-> filed[connected[n].source_id],
         target |-> filed[connected[n].target_id]]]

\* _create_diagram_xml: the shapes and the edge cells under root, which
\* holds the cells 0 and 1 and one cell per resource when the edges are made
_create_diagram_xml(correlated_resources) ==
  LET layout == _create_flat_layout(correlated_resources.resources, 2)
  IN [shapes |-> layout.shapes,
      connections |-> _generate_connections(correlated_resources.relationships,
                                            layout.shapes,
                                            2 + Len(correlated_resources.resources) + 1)]

\* _export_to_svg, run being what subprocess.run of the drawio command did
_export_to_svg(run) ==
  IF run.status = "ok" THEN Return("svg_file")
  ELSE IF isinstance(run.error, {"CalledProcessError"})
  THEN Raise("DiagramGenerationError", run.error)
  ELSE IF isinstance(run.error, {"FileNotFoundError"})
  THEN Raise("DiagramGenerationError", "none")
  ELSE run

\* DrawioDiagramGenerator.generate, write being what _save_diagram did
drawio_generate(correlated_resources, write, run) ==
  LET tried == IF write.status = "error" THEN write
               ELSE IF _export_to_svg(run).status = "error" THEN _export_to_svg(run)
               ELSE Return([file_path |-> write.value,
                            image_file_path |-> _export_to_svg(run).value])
  IN IF tried.status = "ok" THEN tried
     ELSE Raise("DiagramGenerationError", tried.error)

\* what writing the .drawio file does, and what the drawio command does
Writes == {Return("output_file"), Raise("OSError", "none")}
Runs == {Return("completed"), Raise("CalledProcessError", "none"),
         Raise("FileNotFoundError", "none")}
NotCalled == [status |-> "not called"]

\* a call generator.generate(correlated) on a DrawioDiagramGenerator
DrawioCall(correlated, write, run) ==
  /\ renderer' = "drawio"
  /\ given' = correlated
  /\ shapes' = _create_diagram_xml(correlated).shapes
  /\ lines' = _create_diagram_xml(correlated).connections
  /\ outside' = [write |-> write,
                 run |-> IF write.status = "ok" THEN run ELSE NotCalled]
  /\ uploads' = 0
  /\ uploaded' = NoResult
  /\ generated' = drawio_generate(correlated, write, run)

\* generator.generate(correlated) of a DrawioDiagramGenerator
DrawioGenerate ==
  /\ renderer = "none"
  /\ \E correlated \in Correlated, write \in Writes, run \in Runs :
       DrawioCall(correlated, write, run)
  /\ UNCHANGED <<correlation, collection, process>>

(***************************************************************************)
(* LucidDiagramGenerator                                                   *)
(***************************************************************************)
\* str(uuid.uuid4()): an id that no resource carries
uuid4 == <<"#">>

\* get_resource_short_name of an object with the keys of resource as attributes
get_resource_short_name(resource) ==
  IF "name" \in DOMAIN resource THEN resource.name
  ELSE IF "address" \in DOMAIN resource
  THEN Split(resource.address, ".")[Len(Split(resource.address, "."))]
  ELSE Unknown

\* the shape_id _generate_shapes gives a resource
lucid_shape_id(resource) ==
  IF Get(resource, "source", "unknown") = "terraform"
  THEN Get(resource, "address", uuid4)
  ELSE IF Get(resource, "source", "unknown") = "azure"
  THEN Get(resource, "id", uuid4)
  ELSE Get(resource, "namespace", <<>>) \o <<"/">> \o Get(resource, "type", Unknown)
         \o <<"/">> \o get_resource_short_name(resource)

\* _group_resources_by_source: the resources of the three sources, by source
_group_resources_by_source(resources) ==
  [source \in {"terraform", "azure", "f5xc"} |->
     SelectSeq(resources, LAMBDA resource : Get(resource, "source", "unknown") = source)]

\* the loop of LucidDiagramGenerator._generate_shapes: the shapes by shape_id
lucid_file_shapes(resources) ==
  Filed([i \in DOMAIN resources |-> lucid_shape_id(resources[i])],
        [i \in DOMAIN resources |->
           [id |-> lucid_shape_id(resources[i]), shape_type |-> "rectangle"]])

\* LucidDiagramGenerator._generate_shapes
lucid_generate_shapes(resources, group_by_platform) ==
  IF group_by_platform
  THEN lucid_file_shapes(_group_resources_by_source(resources)["terraform"]
                           \o _group_resources_by_source(resources)["azure"]
                           \o _group_resources_by_source(resources)["f5xc"])
  ELSE lucid_file_shapes(resources)

\* LucidDiagramGenerator._generate_lines
_generate_lines(relationships, filed) ==
  LET connected ==
        SelectSeq(relationships,
                  LAMBDA relationship :
                    /\ relationship.source_id \in DOMAIN filed
                    /\ relationship.target_id \in DOMAIN filed)
  IN [n \in DOMAIN connected |->
        [id |-> uuid4, source |-> connected[n].source_id,
         target |-> connected[n].target_id]]

\* an access or refresh token
Token(n) == [token |-> n]

\* the tokens of a LucidAuthClient
Auth(access_token, refresh_token) ==
  [access_token |-> access_token, refresh_token |-> refresh_token]

\* LucidAuthClient.refresh_access_token, post being what requests.post to
\* the token URL did: what it returns or raises, and the tokens it leaves
refresh_access_token(auth, post) ==
  IF auth.refresh_token = None
  THEN [outcome |-> Raise("AuthenticationError", "none"), auth |-> auth]
  ELSE LET tried == IF post.status = "error" THEN post
                    ELSE IF raise_for_status(post.value).status = "error"
                    THEN raise_for_status(post.value)
                    ELSE response_json(post.value)
       IN IF tried.status = "error"
          THEN [outcome |-> IF isinstance(tried.error, {"RequestException"})
                            THEN Raise("AuthenticationError", tried.error)
                            ELSE tried,
                auth |-> auth]
          ELSE [outcome |-> Return(Get(tried.value, "access_token", None)),
                auth |-> Auth(Get(tried.value, "access_token", None),
                              IF Get(tried.value, "refresh_token", None) # None
                              THEN tried.value.refresh_token
                              ELSE auth.refresh_token)]

\* the try block of _upload_document, post being what self.session.post did
upload_try(post) ==
  IF post.status = "error" THEN post
  ELSE IF raise_for_status(post.value).status = "error"
  THEN raise_for_status(post.value)
  ELSE IF response_json(post.value).status = "error" THEN response_json(post.value)
  ELSE IF Get(response_json(post.value).value, "documentId", <<>>) = <<>>
  THEN Raise("LucidAPIError", "none")
  ELSE Return([document_id |-> response_json(post.value).value.documentId])

\* LucidDiagramGenerator._upload_document as the call number `attempt` on the
\* stack, posts[k] being what the k-th upload does and refreshes[k] what the
\* token request after it does: what the call returns or raises and the
\* uploads made.  The interpreter allows RecursionLimit calls inside each
\* other and raises RecursionError in place of the next.
RECURSIVE _upload_document(_, _, _, _)
_upload_document(auth, posts, refreshes, attempt) ==
  IF attempt > RecursionLimit
  THEN [outcome |-> Raise("RecursionError", "none"), attempts |-> attempt - 1]
  ELSE IF auth.access_token = None
  THEN [outcome |-> Raise("AuthenticationError", "none"), attempts |-> attempt - 1]
  ELSE LET tried == upload_try(posts[attempt])
           refreshed == refresh_access_token(auth, refreshes[attempt])
       IN IF tried.status = "ok" THEN [outcome |-> tried, attempts |-> attempt]
          ELSE IF isinstance(tried.error, {"HTTPError"})
          THEN IF tried.response.status_code = 401
               THEN IF refreshed.outcome.status = "error"
                    THEN [outcome |-> refreshed.outcome, attempts |-> attempt]
                    ELSE _upload_document(refreshed.auth, posts, refreshes, attempt + 1)
               ELSE [outcome |-> Raise("LucidAPIError", tried.error),
                     attempts |-> attempt]
          ELSE IF isinstance(tried.error, {"RequestException"})
          THEN [outcome |-> Raise("LucidAPIError", tried.error), attempts |-> attempt]
          ELSE [outcome |-> tried, attempts |-> attempt]

\* LucidDiagramGenerator.generate_and_upload around what _upload_document did
generate_and_upload(upload) ==
  IF upload.status = "ok" THEN upload
  ELSE Raise("DiagramGenerationError", upload.error)

\* what the documents endpoint answers to an upload
DocumentId == <<"d">>
Unauthorized == Return(Response(401, Text("RequestsJSONDecodeError"), TRUE))
UploadAnswers ==
  {Return(Response(200, Json([documentId |-> DocumentId]), TRUE)),
   Return(Response(200, Json([title |-> DocumentId]), TRUE)),
   Return(Response(200, Text("RequestsJSONDecodeError"), TRUE)),
   Unauthorized,
   Return(Response(500, Text("RequestsJSONDecodeError"), TRUE)),
   Raise("ConnectionError", "none")}

\* what the token endpoint answers to a refresh
Refreshed == Return(Response(200, Json([access_token |-> Token(1)]), TRUE))
RefreshAnswers ==
  {Refreshed,
   Return(Response(200, Json([refresh_token |-> Token(1)]), TRUE)),
   Return(Response(400, Text("RequestsJSONDecodeError"), TRUE))}

\* the scripts of at most n answers that are read: answers `again` and then
\* one of `answers`
Until(again, answers, n) ==
  {[i \in 1..n |-> IF i < k THEN again ELSE last] : k \in 1..n, last \in answers}

\* the tokens of an authenticated client
Authenticated == {Auth(Token(0), Token(0)), Auth(Token(0), None)}

\* generator.generate_and_upload(correlated) of a LucidDiagramGenerator
LucidGenerateAndUpload ==
  /\ renderer = "none"
  /\ \E correlated \in Correlated, group_by_platform \in BOOLEAN,
        auth \in Authenticated,
        posts \in Until(Unauthorized, UploadAnswers, RecursionLimit),
        refreshes \in Until(Refreshed, RefreshAnswers, RecursionLimit) :
       LET filed == lucid_generate_shapes(correlated.resources, group_by_platform)
           upload == _upload_document(auth, posts, refreshes, 1)
       IN /\ renderer' = "lucid"
          /\ given' = correlated
          /\ shapes' = filed
          /\ lines' = _generate_lines(correlated.relationships, filed)
          /\ outside' = [auth |-> auth,
                         posts |-> SubSeq(posts, 1, upload.attempts),
                         refreshes |-> SubSeq(refreshes, 1, upload.attempts)]
          /\ uploads' = upload.attempts
          /\ uploaded' = upload.outcome
          /\ generated' = generate_and_upload(upload.outcome)
  /\ UNCHANGED <<correlation, collection, process>>

NextRender == DrawioGenerate \/ LucidGenerateAndUpload

SpecRender == Init /\ [][NextRender]_vars

(***************************************************************************)
(* cli.py: main.  One run of the command: its statements call the          *)
(* collectors, the correlator and the generator in turn inside one try     *)
(* statement whose except clauses end the process with sys.exit(1).        *)
(***************************************************************************)
AZURERM_RESOURCE_GROUP ==
  <<"a","z","u","r","e","r","m","_","r","e","s","o","u","r","c","e","_","g","r","o","u","p">>

\* TerraformStateCollector.extract_resource_groups, runs being what the
\* subprocess.run calls of its collect_resources() do
extract_resource_groups(runs) ==
  LET resources == terraform_collect_resources(runs).outcome
      groups == SelectSeq(resources.value,
                          LAMBDA resource :
                            /\ resource.type = AZURERM_RESOURCE_GROUP
                            /\ Get(resource.values, "name", JNull) # JNull)
  IN IF resources.status = "error" THEN Raise("TerraformStateError", resources.error)
     ELSE Return([k \in DOMAIN groups |-> groups[k].values.name])

\* where main is after a call: at its next statement when the call returned,
\* past the sys.exit(1) of its except clause when it raised
main_after_ignoring_raise(outcome, next) == next

main_after(outcome, next) ==
  IF outcome.status = "ok" THEN next ELSE "exited"

\* the exit status of the process when main is at `at`: 1 from sys.exit(1),
\* 0 when main returned
main_exit_status(outcome, at) ==
  IF outcome.status # "ok" THEN 1
  ELSE IF at = "exited" THEN 0
  ELSE exit_status

\* a phase of main was called and did `outcome`; `assigned` are the local
\* variables after it when it returned
Phase(phase, outcome, next, assigned) ==
  /\ ran' = Append(ran, [phase |-> phase, status |-> outcome.status])
  /\ pc' = main_after(outcome, next)
  /\ exit_status' = main_exit_status(outcome, main_after(outcome, next))
  /\ locals' = IF outcome.status = "ok" THEN assigned ELSE locals

\* a state entry whose values carry "id": null
TfEntryNullId ==
  [type |-> JStr(<<"t">>), name |-> JStr(<<"b">>), address |-> JStr(AddrBad),
   values |-> [id |-> JNull]]

\* what terraform may do in a run of main
MainTerraformRuns == TerraformRuns \cup {Return(Json(StateOf(<<TfEntryNullId>>)))}

\* terraform_collector.collect_resources() and extract_resource_groups();
\* the second is only called when the first returned, and terraform then
\* does the same at each of its attempts
MainTerraform ==
  /\ pc = "terraform"
  /\ \E runs \in Scripts(MainTerraformRuns, TerraformMaxAttempts) :
       \E collect \in {terraform_collect_resources(runs).outcome} :
         \E run \in IF collect.status = "ok" THEN MainTerraformRuns ELSE {NoRun} :
           \E groups \in {IF collect.status = "ok"
                          THEN extract_resource_groups([k \in 1..TerraformMaxAttempts |-> run])
                          ELSE collect} :
             Phase("terraform", groups, "azure",
                   [locals EXCEPT !.terraform_resources = collect.value])
  /\ UNCHANGED <<correlation, collection, rendering>>

\* azure_collector.collect_resources(); the two relationship queries after
\* it return {} when they fail and never raise
MainAzure ==
  /\ pc = "azure"
  /\ \E responses \in Scripts(AzureResponses, AzureMaxAttempts) :
       \E collect \in {azure_collect_resources(responses).outcome} :
         Phase("azure", collect, "f5xc",
               [locals EXCEPT !.azure_resources = collect.value])
  /\ UNCHANGED <<correlation, collection, rendering>>

\* an empty list of items
NoItems == Return(Response(200, Json([items |-> <<>>]), TRUE))

\* f5xc_collector.collect_resources() on a tenant with resources of one type
\* at most: one request is answered in any way, the others with no items
MainF5XC ==
  /\ pc = "f5xc"
  /\ \E get \in F5XCGets, type \in 1..F5XCRequests :
       \E collect \in {f5xc_collect_resources(System,
                          [k \in 1..F5XCRequests |-> IF k = type THEN get ELSE NoItems])} :
         Phase("f5xc", collect, "correlate",
               [locals EXCEPT !.f5xc_resources = collect.value])
  /\ UNCHANGED <<correlation, collection, rendering>>

\* correlator.correlate(...) on the three collected lists
MainCorrelate ==
  /\ pc = "correlate"
  /\ Correlate(locals.terraform_resources, locals.azure_resources,
               locals.f5xc_resources)
  /\ Phase("correlate", result', "render", [locals EXCEPT !.correlated = result'])
  /\ UNCHANGED rendering

\* diagram_generator.generate(correlated, ...), the last call of main, in a
\* run with --no-grouping whose two relationship queries returned {}
MainGenerate ==
  /\ pc = "render"
  /\ \E write \in Writes, run \in Runs :
       /\ DrawioCall(locals.correlated, write, run)
       /\ Phase("render", generated', "exited", locals)
  /\ UNCHANGED <<correlation, collection>>

NextMain == MainTerraform \/ MainAzure \/ MainF5XC \/ MainCorrelate \/ MainGenerate

SpecMain == Init /\ [][NextMain]_vars

(***************************************************************************)
(* Properties                                                              *)
(***************************************************************************)
\* the last correlate() call returned a CorrelatedResources
Returned == result.status = "ok"

\* the relationships of type kind from source_id to target_id in a result
RelationshipCount(r, kind, source_id, target_id) ==
  Cardinality({k \in DOMAIN r.relationships :
                 /\ r.relationships[k].relationship_type = kind
                 /\ r.relationships[k].source_id = source_id
                 /\ r.relationships[k].target_id = target_id})

\* the (source_id, target_id, relationship_type) triples of a result
Triples(r) ==
  {<<r.relationships[k].source_id, r.relationships[k].target_id,
     r.relationships[k].relationship_type>> : k \in DOMAIN r.relationships}

\* the drift entries of a result
DriftSet(r) == Range(r.drift)

\* C1: a correlate() that returns, returns one resource per input record:
\* as many as the three lists hold together, the dumps of the Terraform
\* records first, then those of the Azure records, then those of the F5 XC
\* records, each with the source tag of its list.
C1_OneResourcePerRecord ==
  Returned =>
    LET nt == Len(terraform_resources)
        na == Len(azure_resources)
        nf == Len(f5xc_resources)
    IN /\ Len(result.resources) = nt + na + nf
       /\ \A i \in 1..nt : /\ result.resources[i] = terraform_resources[i]
                           /\ result.resources[i].source = "terraform"
       /\ \A i \in 1..na : /\ result.resources[nt + i] = azure_resources[i]
                           /\ result.resources[nt + i].source = "azure"
       /\ \A i \in 1..nf : /\ result.resources[nt + na + i] = f5xc_resources[i]
                           /\ result.resources[nt + na + i].source = "f5xc"

\* a call that returned with records in each of the three lists
C1_Witness ==
  /\ Returned
  /\ terraform_resources # <<>>
  /\ azure_resources # <<>>
  /\ f5xc_resources # <<>>

\* C2: two correlate() calls in a row with the same lists, made by
\* correlators with the same options (the same correlator or another one),
\* end alike: both raise, or both return the same set of relationship
\* triples and the same set of drift entries.
C2_SameInputsSameContent ==
  (prev.result.status # "none" /\ prev.options = used) =>
    /\ prev.result.status = result.status
    /\ Returned => /\ Triples(prev.result) = Triples(result)
                   /\ DriftSet(prev.result) = DriftSet(result)

\* the same correlator ran twice on the same lists and returned drift and the
\* same relationships in another order
C2_Witness ==
  /\ prev.result.status = "ok"
  /\ prev.options = used
  /\ prev.same_instance
  /\ Returned
  /\ result.drift # <<>>
  /\ result.relationships # prev.result.relationships

\* the sanitized address of the i-th Terraform record of the last call
TfKey(i) == sanitize_resource_id(terraform_resources[i].address)

\* the entries of depends_on, over the records whose key is source_id, that
\* name target_id
DependencyEntries(source_id, target_id) ==
  Cardinality({p \in UNION {{<<i, j>> : j \in DOMAIN terraform_resources[i].depends_on} :
                              i \in DOMAIN terraform_resources} :
                 /\ TfKey(p[1]) = source_id
                 /\ sanitize_resource_id(terraform_resources[p[1]].depends_on[p[2]])
                      = target_id})

\* C3: when a Terraform record A names the address of another Terraform
\* record B of the list in depends_on, the result holds one
\* terraform_dependency relationship from A's key to B's key per such entry
\* (exactly one when B is named once), and from B's key to A's key only what
\* B's own depends_on asks for (none when B does not name A).
C3_OneDependencyPerEntry ==
  Returned =>
    \A a, b \in DOMAIN terraform_resources :
      (a # b /\ terraform_resources[b].address \in Range(terraform_resources[a].depends_on)) =>
        /\ RelationshipCount(result, TERRAFORM_DEPENDENCY, TfKey(a), TfKey(b))
             = DependencyEntries(TfKey(a), TfKey(b))
        /\ RelationshipCount(result, TERRAFORM_DEPENDENCY, TfKey(b), TfKey(a))
             = DependencyEntries(TfKey(b), TfKey(a))

\* a record that names another one once got its one relationship, and there
\* is none back
C3_Witness ==
  /\ Returned
  /\ \E a, b \in DOMAIN terraform_resources :
       /\ a # b
       /\ terraform_resources[b].address \in Range(terraform_resources[a].depends_on)
       /\ RelationshipCount(result, TERRAFORM_DEPENDENCY, TfKey(a), TfKey(b)) = 1
       /\ RelationshipCount(result, TERRAFORM_DEPENDENCY, TfKey(b), TfKey(a)) = 0

\* the address of a dependency is that of no record of the three lists
Dangling(address) ==
  /\ \A i \in DOMAIN terraform_resources : terraform_resources[i].address # address
  /\ \A i \in DOMAIN azure_resources : azure_resources[i].id # address
  /\ \A i \in DOMAIN f5xc_resources : F5Key(f5xc_resources[i]) # address

\* C4: after a correlate() that returned, every entry of depends_on that
\* names an address found in none of the three lists is in the relationship
\* list once per entry (terraform_dependency), and the graph of the
\* correlator has neither an edge for it nor a node for the missing target.
C4_DanglingDependencyNotInGraph ==
  Returned =>
    \A i \in DOMAIN terraform_resources :
      \A j \in DOMAIN terraform_resources[i].depends_on :
        LET target_id == sanitize_resource_id(terraform_resources[i].depends_on[j])
        IN Dangling(terraform_resources[i].depends_on[j]) =>
             /\ RelationshipCount(result, TERRAFORM_DEPENDENCY, TfKey(i), target_id)
                  = DependencyEntries(TfKey(i), target_id)
             /\ <<TfKey(i), target_id>> \notin DOMAIN graph.edges
             /\ target_id \notin DOMAIN graph.nodes

\* terraform_resources[i] and azure_resources[k] have the same id, ignoring
\* case
SameId(i, k) ==
  LET values == terraform_resources[i].values
  IN /\ "id" \in DOMAIN values
     /\ values.id.t = "str"
     /\ values.id.s # <<>>
     /\ Lower(values.id.s) = Lower(azure_resources[k].id)

\* the drift entries of a type for an address in the last result
DriftCount(address, drift_type) ==
  Cardinality({n \in DOMAIN result.drift :
                 /\ result.drift[n].resource_address = address
                 /\ result.drift[n].drift_type = drift_type})

\* values.tags of terraform_resources[i] is not the tags of azure_resources[k]
TagsMismatch(i, k) ==
  Get(terraform_resources[i].values, "tags", JTags(EmptyTags))
    # JTags(azure_resources[k].tags)

\* C5: when a Terraform record and an Azure record of a call that returned
\* have the same id ignoring case and different tags, the drift list holds
\* exactly one entry of type tags with the address of the Terraform record
\* if the correlator detects drift, and is empty if it does not.
C5_OneTagDriftPerMismatch ==
  Returned =>
    \A i \in DOMAIN terraform_resources, k \in DOMAIN azure_resources :
      (SameId(i, k) /\ TagsMismatch(i, k)) =>
        IF used.enable_drift_detection
        THEN DriftCount(terraform_resources[i].address, "tags") = 1
        ELSE result.drift = <<>>

\* drift detection reported the tags of a matched pair
C5_Witness ==
  /\ Returned
  /\ used.enable_drift_detection
  /\ \E i \in DOMAIN terraform_resources, k \in DOMAIN azure_resources :
       /\ SameId(i, k)
       /\ TagsMismatch(i, k)
       /\ DriftCount(terraform_resources[i].address, "tags") = 1

\* terraform_resources[i] gives a location that is not that of
\* azure_resources[k], ignoring case
LocationMismatch(i, k) ==
  LET values == terraform_resources[i].values
  IN /\ "location" \in DOMAIN values
     /\ values.location.t = "str"
     /\ values.location.s # <<>>
     /\ Lower(values.location.s) # Lower(azure_resources[k].location)

\* C6: in the result of a correlator that detects drift, a Terraform record
\* matched with an Azure record has one location entry when its location
\* differs from the Azure one ignoring case and none otherwise (equal
\* ignoring case, or no location given); a Terraform record matched with no
\* Azure record has no drift entry; every entry is of type tags or location.
C6_LocationDrift ==
  (Returned /\ used.enable_drift_detection) =>
    /\ \A i \in DOMAIN terraform_resources :
         LET address == terraform_resources[i].address
         IN /\ \A k \in DOMAIN azure_resources :
                 SameId(i, k) =>
                   DriftCount(address, "location")
                     = IF LocationMismatch(i, k) THEN 1 ELSE 0
            /\ (\A k \in DOMAIN azure_resources : ~SameId(i, k)) =>
                 \A n \in DOMAIN result.drift :
                   result.drift[n].resource_address # address
    /\ \A n \in DOMAIN result.drift :
         result.drift[n].drift_type \in {"tags", "location"}

\* one matched record with another location got its entry, and one whose
\* location differs in case only got none
C6_Witness ==
  /\ Returned
  /\ used.enable_drift_detection
  /\ \E i, j \in DOMAIN terraform_resources, k \in DOMAIN azure_resources :
       /\ SameId(i, k) /\ LocationMismatch(i, k)
       /\ DriftCount(terraform_resources[i].address, "location") = 1
       /\ SameId(j, k) /\ ~LocationMismatch(j, k)
       /\ terraform_resources[j].values.location.s # azure_resources[k].location
       /\ DriftCount(terraform_resources[j].address, "location") = 0

\* the string values at any depth of a JSON value
RECURSIVE StringsAnywhere(_)
StringsAnywhere(value) ==
  IF value.t = "str" THEN {value.s}
  ELSE IF value.t = "dict"
  THEN UNION {StringsAnywhere(value.items[i].v) : i \in DOMAIN value.items}
  ELSE IF value.t = "list"
  THEN UNION {StringsAnywhere(value.elems[i]) : i \in DOMAIN value.elems}
  ELSE {}

\* the IP addresses that occur in a string at any depth of a JSON value
IpsAnywhere(value) ==
  UNION {Range(ip_pattern_findall(s)) : s \in StringsAnywhere(value)}

\* the IP addresses the origin_servers entries of a pool carry
CarriedIps(origin_pool) ==
  UNION {{Get(Origins(origin_pool)[i][k], "ip", <<>>) :
            k \in {"public_ip", "private_ip"} \cap DOMAIN Origins(origin_pool)[i]} :
         i \in DOMAIN Origins(origin_pool)} \ {<<>>}

\* the relationships from an origin pool to a virtual machine
OriginVmRelationships(origin_pool, vm) ==
  {n \in DOMAIN result.relationships :
     /\ result.relationships[n].relationship_type = F5XC_ORIGIN_TO_AZURE_VM
     /\ result.relationships[n].source_id = sanitize_resource_id(F5Key(origin_pool))
     /\ result.relationships[n].target_id = sanitize_resource_id(vm.id)}

\* C7: in a result, an origin pool and a virtual machine have exactly one
\* f5xc_origin_to_azure_vm relationship, listing every shared address in
\* matched_ips, when an address of the pool's origin servers occurs in a
\* string anywhere in the properties of the machine, and none when no
\* address is shared.
C7_OneRelationshipPerSharedIp ==
  Returned =>
    \A p \in DOMAIN f5xc_resources, v \in DOMAIN azure_resources :
      (f5xc_resources[p].type = ORIGIN_POOL /\ azure_resources[v].type = VM_TYPE) =>
        LET shared == CarriedIps(f5xc_resources[p])
                        \cap IpsAnywhere(azure_resources[v].properties)
            found == OriginVmRelationships(f5xc_resources[p], azure_resources[v])
        IN IF shared = {} THEN found = {}
           ELSE /\ Cardinality(found) = 1
                /\ \A n \in found : shared \subseteq result.relationships[n].metadata.matched_ips

\* C8: the result of a correlator built with match_by_ip=False holds no
\* f5xc_origin_to_azure_vm relationship.
C8_NoIpMatchWhenDisabled ==
  (Returned /\ ~used.match_by_ip) =>
    \A n \in DOMAIN result.relationships :
      result.relationships[n].relationship_type # F5XC_ORIGIN_TO_AZURE_VM

\* the options a and b differ in exactly the one named
OnlyDiffers(a, b, option) ==
  \A o \in {"match_by_tags", "match_by_ip", "enable_drift_detection"} :
    (a[o] # b[o]) <=> (o = option)

\* the triples of a result whose type is not kind
TriplesBut(r, kind) == {t \in Triples(r) : t[3] # kind}

\* C9: two correlate() calls in a row on the same lists by correlators that
\* differ in one option end alike but for what the option governs: both
\* raise or both return; with match_by_tags flipped the relationships other
\* than generic_dependency and the drift are the same, with match_by_ip
\* flipped those other than f5xc_origin_to_azure_vm and the drift, with
\* enable_drift_detection flipped all the relationships.
C9_OptionsIndependent ==
  prev.result.status # "none" =>
    /\ OnlyDiffers(prev.options, used, "match_by_tags") =>
         /\ prev.result.status = result.status
         /\ Returned =>
              /\ TriplesBut(prev.result, GENERIC_DEPENDENCY)
                   = TriplesBut(result, GENERIC_DEPENDENCY)
              /\ DriftSet(prev.result) = DriftSet(result)
    /\ OnlyDiffers(prev.options, used, "match_by_ip") =>
         /\ prev.result.status = result.status
         /\ Returned =>
              /\ TriplesBut(prev.result, F5XC_ORIGIN_TO_AZURE_VM)
                   = TriplesBut(result, F5XC_ORIGIN_TO_AZURE_VM)
              /\ DriftSet(prev.result) = DriftSet(result)
    /\ OnlyDiffers(prev.options, used, "enable_drift_detection") =>
         /\ prev.result.status = result.status
         /\ Returned => Triples(prev.result) = Triples(result)

\* C10: every correlate() call returns a CorrelatedResources, whatever the
\* fields of the records hold.
C10_MalformedFieldDoesNotAbort ==
  calls > 0 => Returned

\* the steps of correlate() in which an exception can be raised
RaisingSteps ==
  {"_correlate_terraform_to_azure", "_correlate_f5xc_to_azure", "_correlate_by_tags",
   "_detect_drift"}

Carries(tags, tag) ==
  tags.t = "tags" /\ tag[1] \in DOMAIN tags.d /\ tags.d[tag[1]] = tag[2]

\* the pairs the records of the last call carry
TagPairs ==
  UNION ({LET tags == Get(terraform_resources[i].values, "tags", JTags(EmptyTags))
          IN IF tags.t = "tags" THEN {<<k, tags.d[k]>> : k \in DOMAIN tags.d} ELSE {} :
          i \in DOMAIN terraform_resources}
         \cup {{<<k, azure_resources[j].tags[k]>> : k \in DOMAIN azure_resources[j].tags} :
               j \in DOMAIN azure_resources})

TfCarries(i, tag) ==
  Carries(Get(terraform_resources[i].values, "tags", JTags(EmptyTags)), tag)

AzCarries(j, tag) == Carries(JTags(azure_resources[j].tags), tag)

AzKey(j) == sanitize_resource_id(azure_resources[j].id)

\* the generic_dependency relationships of the last result from source_id to
\* target_id with the pair tag in metadata
TagRelationships(source_id, target_id, tag) ==
  {n \in DOMAIN result.relationships :
     /\ result.relationships[n].relationship_type = GENERIC_DEPENDENCY
     /\ result.relationships[n].source_id = source_id
     /\ result.relationships[n].target_id = target_id
     /\ result.relationships[n].metadata = [tag_key |-> tag[1], tag_value |-> tag[2]]}

\* C13: in the result of a correlator that matches by tags, every Terraform
\* record and every Azure record that carry the same (key, value) pair have
\* one generic_dependency relationship for that pair, from the key of the
\* first to the key of the second (records with the same keys have one each);
\* every generic_dependency relationship is one of these, so none starts or
\* ends at an F5 XC record; a correlator that does not match by tags returns
\* none.
C13_TagCrossProduct ==
  Returned =>
    /\ used.match_by_tags =>
         \A tag \in TagPairs :
           \A i \in DOMAIN terraform_resources, j \in DOMAIN azure_resources :
             (TfCarries(i, tag) /\ AzCarries(j, tag)) =>
               Cardinality(TagRelationships(TfKey(i), AzKey(j), tag))
                 = Cardinality({q \in (DOMAIN terraform_resources) \X (DOMAIN azure_resources) :
                                  /\ TfKey(q[1]) = TfKey(i) /\ AzKey(q[2]) = AzKey(j)
                                  /\ TfCarries(q[1], tag) /\ AzCarries(q[2], tag)})
    /\ \A n \in DOMAIN result.relationships :
         result.relationships[n].relationship_type = GENERIC_DEPENDENCY =>
           /\ used.match_by_tags
           /\ \E i \in DOMAIN terraform_resources, j \in DOMAIN azure_resources :
                /\ result.relationships[n].source_id = TfKey(i)
                /\ result.relationships[n].target_id = AzKey(j)
                /\ \E tag \in TagPairs :
                     /\ TfCarries(i, tag) /\ AzCarries(j, tag)
                     /\ result.relationships[n].metadata
                          = [tag_key |-> tag[1], tag_value |-> tag[2]]
           /\ \A f \in DOMAIN f5xc_resources :
                sanitize_resource_id(F5Key(f5xc_resources[f]))
                  \notin {result.relationships[n].source_id,
                          result.relationships[n].target_id}

\* a Terraform record, two Azure records and an F5 XC record carry the same
\* pair: the Terraform record has one relationship to each Azure record
C13_Witness ==
  /\ Returned
  /\ used.match_by_tags
  /\ \E tag \in TagPairs :
       \E i \in DOMAIN terraform_resources, j1, j2 \in DOMAIN azure_resources,
          f \in DOMAIN f5xc_resources :
         /\ j1 # j2
         /\ TfCarries(i, tag) /\ AzCarries(j1, tag) /\ AzCarries(j2, tag)
         /\ Carries(Get(f5xc_resources[f].metadata, "labels", JTags(EmptyTags)), tag)
         /\ Cardinality(TagRelationships(TfKey(i), AzKey(j1), tag)) = 1
         /\ Cardinality(TagRelationships(TfKey(i), AzKey(j2), tag)) = 1

\* the terraform_azure relationships of the last result that start at
\* source_id
TerraformAzureFrom(source_id) ==
  {n \in DOMAIN result.relationships :
     /\ result.relationships[n].relationship_type = TERRAFORM_AZURE
     /\ result.relationships[n].source_id = source_id}

\* relationship n joins terraform_resources[i] and azure_resources[j] and
\* names their types
JoinsTerraformAzure(n, i, j) ==
  /\ result.relationships[n].relationship_type = TERRAFORM_AZURE
  /\ result.relationships[n].source_id = TfKey(i)
  /\ result.relationships[n].target_id = AzKey(j)
  /\ result.relationships[n].metadata.terraform_type = terraform_resources[i].type
  /\ result.relationships[n].metadata.azure_type = azure_resources[j].type

\* C14: in a result, every Terraform record whose values.id is the id of an
\* Azure record ignoring case has a terraform_azure relationship from its
\* key to the key of that record, with the two types in metadata; the key
\* of a Terraform record starts as many terraform_azure relationships as
\* there are matched records with that key, so a record with no id, an empty
\* id or an id of no Azure record adds none; every terraform_azure
\* relationship joins such a pair.
C14_TerraformAzureById ==
  Returned =>
    /\ \A i \in DOMAIN terraform_resources :
         /\ \A j \in DOMAIN azure_resources :
              SameId(i, j) => \E n \in DOMAIN result.relationships :
                                JoinsTerraformAzure(n, i, j)
         /\ Cardinality(TerraformAzureFrom(TfKey(i)))
              = Cardinality({q \in (DOMAIN terraform_resources) \X (DOMAIN azure_resources) :
                               TfKey(q[1]) = TfKey(i) /\ SameId(q[1], q[2])})
    /\ \A n \in DOMAIN result.relationships :
         result.relationships[n].relationship_type = TERRAFORM_AZURE =>
           \E i \in DOMAIN terraform_resources, j \in DOMAIN azure_resources :
             SameId(i, j) /\ JoinsTerraformAzure(n, i, j)

\* a record whose id is written in another case than the Azure id got its
\* relationship, and a record without id got none
C14_Witness ==
  /\ Returned
  /\ \E i, k \in DOMAIN terraform_resources, j \in DOMAIN azure_resources :
       /\ SameId(i, j)
       /\ terraform_resources[i].values.id.s # azure_resources[j].id
       /\ Cardinality(TerraformAzureFrom(TfKey(i))) = 1
       /\ "id" \notin DOMAIN terraform_resources[k].values
       /\ TerraformAzureFrom(TfKey(k)) = {}

\* the relationships of a type in the last result from the key of
\* f5xc_resources[f] to the key of azure_resources[j]
EdgeToCloud(kind, f, j) ==
  {n \in DOMAIN result.relationships :
     /\ result.relationships[n].relationship_type = kind
     /\ result.relationships[n].source_id = sanitize_resource_id(F5Key(f5xc_resources[f]))
     /\ result.relationships[n].target_id = AzKey(j)}

\* one of the two names, lower-cased, is a part of the other
NamesAlike(f, j) ==
  LET site_name == Lower(f5xc_resources[f].name)
      vnet_name == Lower(azure_resources[j].name)
  IN IsSubstring(vnet_name, site_name) \/ IsSubstring(site_name, vnet_name)

\* C15: in a result, a site and a virtual network have one
\* f5xc_site_to_azure_vnet relationship, with match_method name_similarity,
\* when one of their lower-cased names is a part of the other, and none
\* otherwise; an F5 XC record that is neither an origin pool nor a site
\* starts no f5xc_origin_to_azure_vm and no f5xc_site_to_azure_vnet
\* relationship.
C15_SiteToVnetByName ==
  Returned =>
    /\ \A f \in DOMAIN f5xc_resources, j \in DOMAIN azure_resources :
         (f5xc_resources[f].type = SITE /\ azure_resources[j].type = VNET_TYPE) =>
           /\ Cardinality(EdgeToCloud(F5XC_SITE_TO_AZURE_VNET, f, j))
                = IF NamesAlike(f, j) THEN 1 ELSE 0
           /\ \A n \in EdgeToCloud(F5XC_SITE_TO_AZURE_VNET, f, j) :
                result.relationships[n].metadata.match_method = "name_similarity"
    /\ \A f \in DOMAIN f5xc_resources, j \in DOMAIN azure_resources :
         f5xc_resources[f].type \notin {ORIGIN_POOL, SITE} =>
           /\ EdgeToCloud(F5XC_SITE_TO_AZURE_VNET, f, j) = {}
           /\ EdgeToCloud(F5XC_ORIGIN_TO_AZURE_VM, f, j) = {}

\* a site and two virtual networks: the site name is a part of the name of
\* the first in another case and gets its relationship, and is not alike to
\* the second
C15_Witness ==
  /\ Returned
  /\ \E f \in DOMAIN f5xc_resources, j1, j2 \in DOMAIN azure_resources :
       /\ f5xc_resources[f].type = SITE
       /\ azure_resources[j1].type = VNET_TYPE /\ azure_resources[j2].type = VNET_TYPE
       /\ IsSubstring(Lower(f5xc_resources[f].name), Lower(azure_resources[j1].name))
       /\ ~IsSubstring(f5xc_resources[f].name, azure_resources[j1].name)
       /\ ~IsSubstring(Lower(azure_resources[j1].name), Lower(f5xc_resources[f].name))
       /\ Cardinality(EdgeToCloud(F5XC_SITE_TO_AZURE_VNET, f, j1)) = 1
       /\ ~NamesAlike(f, j2)
       /\ EdgeToCloud(F5XC_SITE_TO_AZURE_VNET, f, j2) = {}

\* the correlation keys of the records of the last call: the addresses, the
\* ids and the namespace/type/name strings, list after list
CorrelationKeys ==
  [i \in DOMAIN terraform_resources |-> terraform_resources[i].address]
    \o [j \in DOMAIN azure_resources |-> azure_resources[j].id]
    \o [f \in DOMAIN f5xc_resources |-> F5Key(f5xc_resources[f])]

\* the records of the last call in the same order
InputRecords == terraform_resources \o azure_resources \o f5xc_resources

\* C16: when the correlation keys of the records given to a fresh
\* correlator are pairwise distinct, the graph that _add_resources_to_graph
\* builds has one node per record, the node of a record carries that record
\* and its source tag, and the graph has no edge.
C16_OneNodePerRecord ==
  (calls > 0 /\ \A a, b \in DOMAIN CorrelationKeys :
                  a # b => CorrelationKeys[a] # CorrelationKeys[b]) =>
    LET g == _add_resources_to_graph(EmptyGraph, terraform_resources, azure_resources,
                                     f5xc_resources)
    IN /\ Cardinality(DOMAIN g.nodes) = Len(InputRecords)
       /\ \A a \in DOMAIN CorrelationKeys :
            LET node_id == sanitize_resource_id(CorrelationKeys[a])
            IN /\ node_id \in DOMAIN g.nodes
               /\ g.nodes[node_id].resource = InputRecords[a]
               /\ g.nodes[node_id].source = InputRecords[a].source
       /\ DOMAIN g.edges = {}

\* the node ids of the records of the last call
InputNodeIds == {sanitize_resource_id(CorrelationKeys[a]) : a \in DOMAIN CorrelationKeys}

\* C17: after every correlate() call on a correlator, whatever calls it made
\* before, the graph has nodes only for the records of that call, each
\* carrying one of them, and edges only between these nodes.
C17_GraphOfLastCallOnly ==
  calls > 0 =>
    /\ DOMAIN graph.nodes \subseteq InputNodeIds
    /\ \A node_id \in DOMAIN graph.nodes :
         graph.nodes[node_id].resource \in Range(InputRecords)
    /\ \A e \in DOMAIN graph.edges : e[1] \in InputNodeIds /\ e[2] \in InputNodeIds

\* the transient error of the call to the outside of a retrying collector
TransientError == [terraform |-> "CalledProcessError", azure |-> "AzureError"]

\* the second call to the outside, made or not, succeeds
SecondSucceeds ==
  /\ script[2].status = "ok"
  /\ collector = "terraform" => script[2].value.text = "json"

\* what _parse_resources makes of the second call to the outside
ParsedFromSecond ==
  IF collector = "terraform"
  THEN terraform_parse_resources(script[2].value.json)
  ELSE azure_parse_resources([data |-> script[2].value.data])

\* collect_resources() was called on a retrying collector whose first call
\* to the outside fails with its transient error and whose second succeeds
FailsOnceThenSucceeds ==
  /\ collector \in DOMAIN TransientError
  /\ script[1] = Raise(TransientError[collector], "none")
  /\ SecondSucceeds
  /\ ParsedFromSecond.status = "ok"

\* C18: when the first underlying call of collect_resources() (terraform
\* show for the Terraform collector, the Resource Graph query for the Azure
\* collector) fails with its transient error (CalledProcessError,
\* AzureError) and the second call succeeds, collect_resources() returns
\* the resources parsed from the second call and the underlying call has
\* been made exactly twice.
C18_RetryOnTransientFailure ==
  FailsOnceThenSucceeds =>
    /\ made = 2
    /\ collected = ParsedFromSecond

\* a request that failed: the session raised, the status check found an
\* error status, or the body is no JSON document
FailedRequest(get) ==
  \/ get.status = "error"
  \/ /\ get.status = "ok"
     /\ \/ get.value.status_code >= 400
        \/ get.value.body.text # "json"

\* C19: F5XCCollector._make_request raises F5XCAPIError for every failed
\* request: an HTTP error raised by the status check, a timeout and any
\* other request exception each surface as F5XCAPIError, and no other
\* exception type escapes the method.
C19_RequestFailuresAreF5XCAPIError ==
  collector = "f5xc" =>
    \A k \in DOMAIN log :
      /\ FailedRequest(script[k]) => log[k].status = "error"
      /\ log[k].status = "error" => log[k].error = "F5XCAPIError"

\* the types of the per-type collectors and their namespaces, in the order
\* load balancers, origin pools, virtual sites, sites
F5XCTypes == <<HTTP_LOADBALANCER, ORIGIN_POOL, VIRTUAL_SITE, SITE>>

\* the list the k-th per-type collector is to give: nothing when its
\* request failed, else what the items of the response come to
ResultOfType(k) ==
  IF log[k].status = "error" THEN <<>>
  ELSE LET out == collect_items(F5XCTypes[k], System, Get(log[k].value, "items", <<>>))
       IN IF out.status = "ok" THEN out.value ELSE <<>>

\* C20: each per-type F5 XC collector returns an empty list instead of
\* raising when its API request fails, so collect_resources() never raises
\* because of a failed request: it makes the four requests and returns the
\* concatenation, in the order load balancers, origin pools, virtual
\* sites, sites, of the results of the types that succeeded.
C20_FailedTypeGivesEmptyList ==
  collector = "f5xc" =>
    /\ collected.status = "ok"
    /\ made = F5XCRequests
    /\ collected.value =
         ResultOfType(1) \o ResultOfType(2) \o ResultOfType(3) \o ResultOfType(4)

\* the request for the origin pools timed out, the other three gave two
\* entries each, and the six records of the three were returned
C20_Witness ==
  /\ collector = "f5xc"
  /\ script[2] = Raise("Timeout", "none")
  /\ \A k \in {1, 3, 4} :
       /\ log[k].status = "ok"
       /\ Len(ResultOfType(k)) = 2
  /\ log[2].status = "error"
  /\ collected.status = "ok"
  /\ Len(collected.value) = 6
  /\ collected.value[3].type = VIRTUAL_SITE
  /\ collected.value[5].type = SITE

\* C23: extract_ip_addresses returns, without duplicates, every IPv4
\* dotted-quad string that occurs in a string value at any depth of the
\* structure it is given, through any nesting of maps and lists (a list
\* directly inside a list included), and nothing that does not occur in
\* it; stated on the properties of the records of a call, which the
\* correlator hands to it.
C23_EveryIpAtAnyDepth ==
  calls > 0 =>
    \A v \in DOMAIN azure_resources :
      extract_ip_addresses(azure_resources[v].properties)
        = IpsAnywhere(azure_resources[v].properties)

\* the sanitized keys of the Azure records of the last call
AzureNodeIds == {AzKey(j) : j \in DOMAIN azure_resources}

\* C27: in every result of correlate(), the source_id of each relationship
\* is the sanitized key of a record of the call's input, and the target_id
\* of every relationship of a type other than terraform_dependency is the
\* sanitized key of an Azure record of the input; only terraform_dependency
\* relationships can have a target that matches no input record.
C27_EndpointsAreInputKeys ==
  Returned =>
    \A n \in DOMAIN result.relationships :
      /\ result.relationships[n].source_id \in InputNodeIds
      /\ result.relationships[n].relationship_type # TERRAFORM_DEPENDENCY
           => result.relationships[n].target_id \in AzureNodeIds
      /\ result.relationships[n].target_id \notin InputNodeIds
           => result.relationships[n].relationship_type = TERRAFORM_DEPENDENCY

\* a result with a dependency on an address that is no record of the call
\* and with a relationship of another type, from a record whose id is
\* written in another case than the Azure record's
C27_Witness ==
  /\ Returned
  /\ \E n \in DOMAIN result.relationships :
       /\ result.relationships[n].relationship_type = TERRAFORM_DEPENDENCY
       /\ result.relationships[n].target_id \notin InputNodeIds
  /\ \E n \in DOMAIN result.relationships :
       /\ result.relationships[n].relationship_type = TERRAFORM_AZURE
       /\ \E i \in DOMAIN terraform_resources, j \in DOMAIN azure_resources :
            /\ "id" \in DOMAIN terraform_resources[i].values
            /\ terraform_resources[i].values.id.t = "str"
            /\ terraform_resources[i].values.id.s # azure_resources[j].id
            /\ result.relationships[n].source_id = TfKey(i)
            /\ result.relationships[n].target_id = AzKey(j)

\* C28: every f5xc_origin_to_azure_vm relationship of a result has a
\* non-empty metadata.matched_ips that is the intersection of the origin
\* addresses of its pool and the addresses extracted from its virtual
\* machine: each listed value is an IPv4 dotted-quad string that the pool
\* carries and that occurs in the machine's properties, and the empty
\* string, which an origin entry without an ip field adds to the pool's
\* set, is never listed.
C28_MatchedIpsAreShared ==
  Returned =>
    \A n \in DOMAIN result.relationships :
      result.relationships[n].relationship_type = F5XC_ORIGIN_TO_AZURE_VM =>
        \E p \in DOMAIN f5xc_resources, v \in DOMAIN azure_resources :
          LET matched_ips == result.relationships[n].metadata.matched_ips
          IN /\ result.relationships[n].source_id
                  = sanitize_resource_id(F5Key(f5xc_resources[p]))
             /\ result.relationships[n].target_id = AzKey(v)
             /\ matched_ips # {}
             /\ matched_ips = OriginIps(f5xc_resources[p])
                                \cap extract_ip_addresses(azure_resources[v].properties)
             /\ \A ip \in matched_ips :
                  /\ ip # <<>>
                  /\ ip_pattern_findall(ip) = <<ip>>
                  /\ ip \in CarriedIps(f5xc_resources[p])
                  /\ ip \in IpsAnywhere(azure_resources[v].properties)

\* a relationship from a pool one of whose origin entries has no ip field
C28_Witness ==
  /\ Returned
  /\ \E n \in DOMAIN result.relationships, p \in DOMAIN f5xc_resources :
       /\ result.relationships[n].relationship_type = F5XC_ORIGIN_TO_AZURE_VM
       /\ result.relationships[n].source_id
            = sanitize_resource_id(F5Key(f5xc_resources[p]))
       /\ <<>> \in OriginIps(f5xc_resources[p])
       /\ result.relationships[n].metadata.matched_ips # {}

\* the node carries a record of the last call
CarriesInputRecord(node_id) ==
  /\ node_id \in DOMAIN graph.nodes
  /\ "resource" \in DOMAIN graph.nodes[node_id]
  /\ graph.nodes[node_id].resource \in Range(InputRecords)

GraphTypes ==
  {TERRAFORM_DEPENDENCY, TERRAFORM_AZURE, F5XC_ORIGIN_TO_AZURE_VM,
   F5XC_SITE_TO_AZURE_VNET}

\* C29: on a fresh correlator, after one correlate() call that returned,
\* every edge of the graph joins two nodes that each carry an input record
\* and is the edge of a relationship of the returned list with the same
\* source and target, of type terraform_dependency, terraform_azure,
\* f5xc_origin_to_azure_vm or f5xc_site_to_azure_vnet; the tag-match
\* (generic_dependency) relationships are returned but never added to the
\* graph.
C29_EdgesAreReturnedRelationships ==
  (Returned /\ calls = 1) =>
    \A e \in DOMAIN graph.edges :
      /\ CarriesInputRecord(e[1])
      /\ CarriesInputRecord(e[2])
      /\ graph.edges[e].relationship.relationship_type \in GraphTypes
      /\ \E n \in DOMAIN result.relationships :
           /\ result.relationships[n] = graph.edges[e].relationship
           /\ result.relationships[n].source_id = e[1]
           /\ result.relationships[n].target_id = e[2]

\* a result with an edge in the graph, with a tag-match relationship between
\* two records that no edge joins, and with a dependency on an address that
\* is no node
C29_Witness ==
  /\ Returned
  /\ calls = 1
  /\ DOMAIN graph.edges # {}
  /\ \E n \in DOMAIN result.relationships :
       /\ result.relationships[n].relationship_type = GENERIC_DEPENDENCY
       /\ <<result.relationships[n].source_id, result.relationships[n].target_id>>
            \notin DOMAIN graph.edges
  /\ \E n \in DOMAIN result.relationships :
       /\ result.relationships[n].relationship_type = TERRAFORM_DEPENDENCY
       /\ result.relationships[n].target_id \notin DOMAIN graph.nodes

\* a call of a function decorated with retry_on_exception was made
DecoratedCall == collector # "none" /\ decorator # NotDecorated

\* the k-th invocation raised an exception of a type in `exceptions`
RaisedRetried(k) ==
  log[k].status = "error" /\ isinstance(log[k].error, decorator.exceptions)

\* C25: a function wrapped by retry_on_exception(max_attempts=n,
\* exceptions=E) with n >= 1 is invoked at least once and at most n times
\* per call; it is invoked again only after raising an exception of a type
\* in E; the first successful return value is returned with no further
\* invocation; an exception of a type not in E propagates after that
\* invocation, with no retry; and when all n invocations raise an E
\* exception the last one is re-raised.
C25_RetryOnlyOnListedExceptions ==
  DecoratedCall =>
    /\ 1 <= made /\ made <= decorator.max_attempts
    /\ Len(log) = made
    /\ \A k \in 1..(made - 1) : RaisedRetried(k)
    /\ RaisedRetried(made) => made = decorator.max_attempts
    /\ collected = log[made]
    /\ collector = "wrapped" => \A k \in 1..made : log[k] = script[k]

\* the function raised a listed exception twice (once a subclass of a
\* listed class) and returned at its third invocation, of three allowed
C25_Witness ==
  /\ collector = "wrapped"
  /\ decorator = Decorator(3, {"OSError"})
  /\ script = <<Raise("FileNotFoundError", "none"), Raise("FileNotFoundError", "none"),
                Return(2)>>
  /\ made = 3
  /\ collected = Return(2)

\* the k-th call to the outside gave the collector a document to parse
Delivered(k) ==
  /\ script[k].status = "ok"
  /\ collector = "terraform" => script[k].value.text = "json"

\* the entries of that document, and what the try block of the loop makes
\* of each
Entries(k) ==
  IF collector = "terraform"
  THEN Get(Get(Get(script[k].value.json, "values", <<>>), "root_module", <<>>),
           "resources", <<>>)
  ELSE script[k].value.data

Tried(k) ==
  [i \in 1..Len(Entries(k)) |->
     IF collector = "terraform" THEN terraform_parse_try(Entries(k)[i])
     ELSE azure_parse_try(Entries(k)[i])]

\* what _parse_resources makes of that document
Parsed(k) ==
  IF collector = "terraform" THEN terraform_parse_resources(script[k].value.json)
  ELSE azure_parse_resources([data |-> script[k].value.data])

\* the entries that pass validation, in the order of the input
RECURSIVE Validated(_, _)
Validated(tried, i) ==
  IF i > Len(tried) THEN <<>>
  ELSE (IF tried[i].status = "ok" THEN <<tried[i].value>> ELSE <<>>)
         \o Validated(tried, i + 1)

\* the documented default of each field an entry can lack
Defaults ==
  [terraform |-> [type |-> Unknown, name |-> Unnamed, values |-> <<>>],
   azure |-> [type |-> Unknown, name |-> Unnamed, location |-> Unknown,
              tags |-> EmptyTags, properties |-> JDict(<<>>)]]

\* a parsed entry has the default in every field it lacked, and the
\* resource group 'unknown' when it had no id
HasDefaults(entry, tried) ==
  (entry # JNull /\ tried.status = "ok") =>
    /\ \A key \in DOMAIN Defaults[collector] \ DOMAIN entry :
         tried.value[key] = Defaults[collector][key]
    /\ (collector = "azure" /\ "id" \notin DOMAIN entry)
         => tried.value.resource_group = Unknown

\* C24: _parse_resources of the two collectors never raises on a malformed
\* item: an item with missing fields is parsed with the documented
\* defaults, an item that still fails validation is skipped, and the
\* output holds the parsed items in input order, so that its length is at
\* most the input length.
C24_ParseSkipsMalformedItems ==
  collector \in {"terraform", "azure"} =>
    \A k \in 1..made :
      Delivered(k) =>
        /\ Parsed(k).status = "ok"
        /\ Parsed(k).value = Validated(Tried(k), 1)
        /\ Len(Parsed(k).value) <= Len(Entries(k))
        /\ \A i \in 1..Len(Entries(k)) : HasDefaults(Entries(k)[i], Tried(k)[i])

\* the node id under which the correlator knows a record of a result
RecordNodeId(resource) ==
  sanitize_resource_id(IF resource.source = "terraform" THEN resource.address
                       ELSE IF resource.source = "azure" THEN resource.id
                       ELSE F5Key(resource))

\* the key under which the generator of the last call files the shape of a
\* record
ShapeKey(resource) ==
  IF renderer = "drawio" THEN drawio_shape_key(resource) ELSE lucid_shape_id(resource)

\* the record was rendered: the generator filed a shape for it
Rendered(resource) == ShapeKey(resource) \in DOMAIN shapes

\* what a connector names as the shape of a record
ShapeRef(resource) ==
  IF renderer = "drawio" THEN shapes[ShapeKey(resource)] ELSE ShapeKey(resource)

\* the connectors from the shape of one record to the shape of another
Connectors(from, to) ==
  {m \in DOMAIN lines : /\ lines[m].source = ShapeRef(from)
                        /\ lines[m].target = ShapeRef(to)}

\* the relationships of the given result from one record to another
Relating(from, to) ==
  {n \in DOMAIN given.relationships :
     /\ given.relationships[n].source_id = RecordNodeId(from)
     /\ given.relationships[n].target_id = RecordNodeId(to)}

\* the generation failed for a reason outside the generator: the file could
\* not be written, the drawio command failed, or the upload failed
OutsideFailed ==
  IF renderer = "drawio"
  THEN outside.write.status = "error" \/ outside.run.status = "error"
  ELSE uploaded.status = "error"

\* C21: a generator call draws one connector for each relationship of the
\* given result whose source and target records it rendered, between the
\* shapes of those two records, and no other connector; relationships with
\* an endpoint that was not rendered are left out without failing the call.
C21_RelationshipsAreConnected ==
  renderer # "none" =>
    /\ generated.status = "error" => OutsideFailed
    /\ Len(lines) <= Len(given.relationships)
    /\ \A i, j \in DOMAIN given.resources :
         Rendered(given.resources[i]) /\ Rendered(given.resources[j])
           => Cardinality(Connectors(given.resources[i], given.resources[j]))
                = Cardinality(Relating(given.resources[i], given.resources[j]))

\* C26: when the upload of generate_and_upload fails with LucidAPIError, the
\* call raises LucidAPIError, not DiagramGenerationError.
C26_UploadFailureIsLucidAPIError ==
  (renderer = "lucid" /\ uploaded.status = "error" /\ uploaded.error = "LucidAPIError")
    => (generated.status = "error" /\ generated.error = "LucidAPIError")

\* C30: an _upload_document call ends on its own account whatever the
\* servers answer: the uploads it makes are bounded by its code, so it is
\* never the interpreter's refusal of one more nested call (RecursionError)
\* that ends it.
C30_UploadAttemptsAreBounded ==
  renderer = "lucid" =>
    /\ uploaded.status # "none"
    /\ ~(uploaded.status = "error" /\ uploaded.error = "RecursionError")

\* the phases of main in the order of its statements
MainPhases == <<"terraform", "azure", "f5xc", "correlate", "render">>

\* the phases that ran are the first phases of main in order, and each one
\* before the last returned
RanInOrder ==
  /\ Len(ran) <= Len(MainPhases)
  /\ \A i \in DOMAIN ran :
       /\ ran[i].phase = MainPhases[i]
       /\ i < Len(ran) => ran[i].status = "ok"

\* the last phase that ran raised
LastRaised == ran # <<>> /\ ran[Len(ran)].status = "error"

\* C22: in a run of main the phases run in the order terraform, azure, f5xc,
\* correlate, render, each only after every phase before it returned:
\* correlate() has been called exactly when the three collectors returned,
\* the generator has been called exactly when correlate() returned too, and
\* it was given the result of that correlate() call; when a phase raises no
\* later phase runs and the process exits with status 1.
C22_PhasesRunInOrder ==
  /\ RanInOrder
  /\ calls = (IF Len(ran) >= 4 THEN 1 ELSE 0)
  /\ renderer = (IF Len(ran) = 5 THEN "drawio" ELSE "none")
  /\ renderer # "none" => (Returned /\ given = result)
  /\ LastRaised => pc = "exited"
  /\ pc = "exited" => exit_status = (IF LastRaised THEN 1 ELSE 0)
  /\ pc # "exited" => pc = MainPhases[Len(ran) + 1]

\* a run in which the generator, given the relationships correlate() found,
\* raised and the process exited with status 1
C22_GeneratorRaisedAfterAll ==
  /\ pc = "exited"
  /\ Len(ran) = 5
  /\ LastRaised
  /\ exit_status = 1
  /\ given = result
  /\ given.relationships # <<>>

====
